---- MODULE Spec2Model ----
(***************************************************************************)
(* Expander decomposition (isaacarvestad/edc): the dynamic subset graph,   *)
(* the unit-flow push-relabel engine, the cut-matching game and the        *)
(* recursive decomposition driver as state machines.                       *)
(*                                                                         *)
(* Indices are 0-based as in the C++ source; a TLA+ sequence is 1-based,   *)
(* so position i of a vector v is v[i + 1] here.                           *)
(***************************************************************************)
EXTENDS Integers, Sequences, FiniteSets, Bags, TLC

VARIABLES
  \* ---- subset graph (lib/datastructures/subset_graph.hpp) ----
  sg,        \* the graph: adjacency lists, degree watermarks, alive/removed lists, frames
  sgTodo,    \* edges the constructor has still to add
  sgPhase,   \* "build" while the constructor runs, then "run"
  sg0,       \* the graph as construction left it
  \* ---- unit-flow engine (lib/unit_flow.cpp) ----
  uf,        \* the flow graph: a graph plus absorbed, sink, height, nextEdgeIdx
  ufTodo,    \* edges still to be added by addEdge
  ufPc,      \* "build", "idle", or "compute" while the queue loop of compute runs
  q,         \* compute's priority queue: a bag of (height, vertex) pairs
  maxH,      \* compute's height cap
  ufRet,     \* what the last call returned, see Returned
  ufLast,    \* the last call made, see Called
  ufCalls,   \* how many compute, reset and matching calls were made
  \* ---- cut-matching solver (lib/cut_matching.cpp) ----
  cmIn,      \* the undirected input graph: vertex count and edge list
  cmGraph,   \* graph: the flow graph on the original vertices
  cmSubdiv,  \* subdivGraph: the subdivision flow graph
  cmPc,      \* "new", "built", "solver", "loop" or "done"
  cm,        \* the solver's members and compute's locals
  \* ---- decomposition driver (expander_decomp.cpp) ----
  edFlow,    \* flowGraph's partition ids: one per vertex, and partitionCount
  edStack,   \* the compute(xs, partition) calls still to run, innermost first
  edPc,      \* "run" while compute recurses, "done" once getPartition was read
  edOut,     \* what getPartition returned
  \* ---- the solver's functions proposeCut and projectFlow, run on their own ----
  fnArgs,    \* the arguments and the members the function reads
  fnResult,  \* what the function returned
  fnPc       \* "args" while the arguments are put together, then the function called

sgVars == <<sg, sgTodo, sgPhase, sg0>>

ufVars == <<uf, ufTodo, ufPc, q, maxH, ufRet, ufLast, ufCalls>>

cmVars == <<cmIn, cmGraph, cmSubdiv, cmPc, cm>>

edVars == <<edFlow, edStack, edPc, edOut>>

fnVars == <<fnArgs, fnResult, fnPc>>

vars == <<sg, sgTodo, sgPhase, sg0, uf, ufTodo, ufPc, q, maxH, ufRet, ufLast, ufCalls,
          cmIn, cmGraph, cmSubdiv, cmPc, cm, edFlow, edStack, edPc, edOut,
          fnArgs, fnResult, fnPc>>

(***************************************************************************)
(* Bounds of the exploration.                                              *)
(***************************************************************************)
MaxFrames == 2      \* nesting depth of subgraph()
MaxRemoved == 2     \* length of the removed list
MaxUnits == 2       \* units of source, and of sink, added between two resets
MaxHeightArg == 3   \* largest maxHeight handed to compute
MaxCalls == 2       \* compute, reset and matching calls in one run
MaxSources == 2     \* length of the source list handed to matching
MaxCut == 2         \* vertices in the level cut of one round
MaxVertices == 4    \* vertices of the graph handed to the decomposition driver
MaxSplit == 4       \* split vertices in a flow vector put together entry by entry
MaxDead == 2        \* split vertices removed before proposeCut is called
MaxRounds == 2      \* rounds of the two runs compared with each other
MaxPairs == 2       \* pairs, and rounds, handed to projectFlow
MaxSubset == 2      \* vertices in the subset handed to subdivisionVertices
VectorLen == 4      \* entries of the vector handed to projectFlow

(***************************************************************************)
(* Small helpers.                                                          *)
(***************************************************************************)
Range(s) == {s[i] : i \in 1..Len(s)}

Min2(a, b) == IF a <= b THEN a ELSE b

Max2(a, b) == IF a >= b THEN a ELSE b

RECURSIVE SumOver(_, _)
SumOver(f, S) ==
  IF S = {} THEN 0
  ELSE LET x == CHOOSE y \in S : TRUE IN f[x] + SumOver(f, S \ {x})

\* The sequence s without the elements of S.
Without(s, S) == SelectSeq(s, LAMBDA x : x \notin S)

\* The position (from 1) of x in s.
PosIn(s, x) == CHOOSE i \in 1..Len(s) : s[i] = x

\* s with x put at position i.
InsertAt(s, i, x) == SubSeq(s, 1, i - 1) \o <<x>> \o SubSeq(s, i, Len(s))

(***************************************************************************)
(* Half-edges.  revIdx is the position of the twin in to's adjacency list  *)
(* (unit_flow.cpp names the field backIdx).                                *)
(***************************************************************************)
Edge(from, to, revIdx, flow, capacity) ==
  [from |-> from, to |-> to, revIdx |-> revIdx, flow |-> flow, capacity |-> capacity]

\* UnitFlow::addEdge that points the first half-edge at the front of v's list
\* instead of at the half-edge appended to it.
addEdgeTwinAtFront(graph, u, v, capacity) ==
  IF u = v THEN graph
  ELSE LET uNeighborCount == Len(graph[u])
       IN [graph EXCEPT
             ![u] = Append(@, Edge(u, v, 0, 0, capacity)),
             ![v] = Append(@, Edge(v, u, uNeighborCount, 0, capacity))]

\* UnitFlow::addEdge: a self-loop is ignored; otherwise one half-edge is
\* appended to each endpoint, each holding the position of the other.
addEdge(graph, u, v, capacity) ==
  IF u = v THEN graph
  ELSE LET uNeighborCount == Len(graph[u])
           vNeighborCount == Len(graph[v])
       IN [graph EXCEPT
             ![u] = Append(@, Edge(u, v, vNeighborCount, 0, capacity)),
             ![v] = Append(@, Edge(v, u, uNeighborCount, 0, capacity))]

\* reverse(e): the twin half-edge.
reverse(graph, e) == graph[e.to][e.revIdx + 1]

(***************************************************************************)
(* The subset graph.  A graph value G is a record                          *)
(*   g        adjacency lists, one sequence of half-edges per vertex       *)
(*   degree   per vertex, the watermark: g[u][0 .. degree[u]-1] are the    *)
(*            half-edges to currently alive neighbours                     *)
(*   alive    the list of alive vertices                                   *)
(*   removed  the list of removed vertices, in order of removal            *)
(*   undo     per entry of removed, the degree the vertex had and its     *)
(*            place in the alive list                                      *)
(*   status   per vertex "alive", "removed" or "excluded"                  *)
(*   frames   the subgraph stack                                           *)
(***************************************************************************)
EmptyGraph(n) ==
  [g       |-> [u \in 0..(n - 1) |-> <<>>],
   degree  |-> [u \in 0..(n - 1) |-> 0],
   alive   |-> [i \in 1..n |-> i - 1],
   removed |-> <<>>,
   undo    |-> <<>>,
   status  |-> [u \in 0..(n - 1) |-> "alive"],
   frames  |-> <<>>]

VerticesOf(G) == DOMAIN G.g

\* Construction: one more edge, both endpoints alive.
WithEdge(G, u, v, capacity) ==
  LET g1 == addEdge(G.g, u, v, capacity)
  IN [G EXCEPT !.g = g1, !.degree = [x \in DOMAIN g1 |-> Len(g1[x])]]

\* Swap positions a and b of v's adjacency list and repoint the two twins.
SwapHalfEdges(g, v, a, b) ==
  IF a = b THEN g
  ELSE LET ea == g[v][a + 1]
           eb == g[v][b + 1]
           g1 == [g EXCEPT ![v][a + 1] = eb, ![v][b + 1] = ea]
           g2 == [g1 EXCEPT ![eb.to][eb.revIdx + 1].revIdx = a]
       IN [g2 EXCEPT ![ea.to][ea.revIdx + 1].revIdx = b]

\* For every visible half-edge x -> v of x, from position i on: move the twin
\* v -> x behind v's watermark and lower the watermark.
RECURSIVE HideLoop(_, _, _, _)
HideLoop(g, degree, x, i) ==
  IF i >= degree[x] THEN [g |-> g, degree |-> degree]
  ELSE LET e == g[x][i + 1]
           v == e.to
       IN HideLoop(SwapHalfEdges(g, v, e.revIdx, degree[v] - 1),
                   [degree EXCEPT ![v] = @ - 1], x, i + 1)

\* The frame the removes of now belong to starts at this length of removed.
RemovedBase(G) ==
  IF G.frames = <<>> THEN 0 ELSE G.frames[Len(G.frames)].base

\* cbeginRemoved() .. cendRemoved(): the removes of the current frame.
RemovedList(G) == SubSeq(G.removed, RemovedBase(G) + 1, Len(G.removed))

size(G) == Len(G.alive)

removedSize(G) == Len(RemovedList(G))

\* remove(u) that leaves u in the alive list.
removeKeepsAlive(G, u) ==
  LET h == HideLoop(G.g, G.degree, u, 0)
  IN [G EXCEPT !.g = h.g,
               !.degree = [h.degree EXCEPT ![u] = 0],
               !.removed = Append(@, u),
               !.undo = Append(@, [degree |-> G.degree[u], pos |-> PosIn(G.alive, u)]),
               !.status = [@ EXCEPT ![u] = "removed"]]

\* remove(u): u leaves the alive list for the removed list, and every alive
\* neighbour hides its half-edge to u behind its watermark.
remove(G, u) ==
  LET h == HideLoop(G.g, G.degree, u, 0)
  IN [G EXCEPT !.g = h.g,
               !.degree = [h.degree EXCEPT ![u] = 0],
               !.alive = Without(@, {u}),
               !.removed = Append(@, u),
               !.undo = Append(@, [degree |-> G.degree[u], pos |-> PosIn(G.alive, u)]),
               !.status = [@ EXCEPT ![u] = "removed"]]

\* How many of the first d half-edges of u lead to v.
TimesSeen(g, u, d, v) == Cardinality({i \in 1..d : g[u][i].to = v})

\* Undo of the last remove that leaves the neighbours' watermarks alone.
unremoveLastNoWatermark(G) ==
  LET k == Len(G.removed)
      u == G.removed[k]
      d == G.undo[k].degree
  IN [G EXCEPT !.degree = [@ EXCEPT ![u] = d],
               !.alive = InsertAt(@, G.undo[k].pos, u),
               !.removed = SubSeq(@, 1, k - 1),
               !.undo = SubSeq(@, 1, k - 1),
               !.status = [@ EXCEPT ![u] = "alive"]]

\* Undo of the last remove: the vertex gets its degree back and each of its
\* neighbours raises its watermark over the half-edge hidden by the remove.
unremoveLast(G) ==
  LET k == Len(G.removed)
      u == G.removed[k]
      d == G.undo[k].degree
  IN [G EXCEPT !.degree = [v \in DOMAIN @ |->
                             IF v = u THEN d ELSE @[v] + TimesSeen(G.g, u, d, v)],
               !.alive = InsertAt(@, G.undo[k].pos, u),
               !.removed = SubSeq(@, 1, k - 1),
               !.undo = SubSeq(@, 1, k - 1),
               !.status = [@ EXCEPT ![u] = "alive"]]

\* restoreRemoves(): undo, last first, every remove of the current frame.
RECURSIVE restoreRemoves(_)
restoreRemoves(G) ==
  IF Len(G.removed) <= RemovedBase(G) THEN G
  ELSE restoreRemoves(unremoveLast(G))

\* Hide the vertices of the sequence xs one after the other.
RECURSIVE ExcludeAll(_, _, _)
ExcludeAll(g, degree, xs) ==
  IF xs = <<>> THEN [g |-> g, degree |-> degree]
  ELSE LET h == HideLoop(g, degree, Head(xs), 0)
       IN ExcludeAll(h.g, h.degree, Tail(xs))

\* subgraph(S) that leaves the watermarks of the retained vertices alone.
subgraphKeepsDegrees(G, S) ==
  LET excluded == Without(G.alive, S)
  IN [G EXCEPT !.degree = [v \in DOMAIN @ |->
                             IF v \in Range(excluded) THEN 0 ELSE @[v]],
               !.alive = Without(@, Range(excluded)),
               !.status = [v \in DOMAIN @ |->
                             IF v \in Range(excluded) THEN "excluded" ELSE @[v]],
               !.frames = Append(@, [excluded    |-> excluded,
                                     savedDegree |-> G.degree,
                                     alive       |-> G.alive,
                                     base        |-> Len(G.removed)])]

\* subgraph(S): push a frame and exclude every alive vertex outside S.  The
\* frame keeps the excluded vertices, and the alive list and the watermarks
\* as they were.
subgraph(G, S) ==
  LET excluded == Without(G.alive, S)
      h == ExcludeAll(G.g, G.degree, excluded)
  IN [G EXCEPT !.g = h.g,
               !.degree = [v \in DOMAIN @ |->
                             IF v \in Range(excluded) THEN 0 ELSE h.degree[v]],
               !.alive = Without(@, Range(excluded)),
               !.status = [v \in DOMAIN @ |->
                             IF v \in Range(excluded) THEN "excluded" ELSE @[v]],
               !.frames = Append(@, [excluded    |-> excluded,
                                     savedDegree |-> G.degree,
                                     alive       |-> G.alive,
                                     base        |-> Len(G.removed)])]

\* restoreSubgraph() that leaves the watermarks as they are.
restoreSubgraphKeepsDegrees(G) ==
  LET f == G.frames[Len(G.frames)]
  IN [G EXCEPT !.alive = f.alive,
               !.status = [v \in DOMAIN @ |->
                             IF v \in Range(f.excluded) THEN "alive" ELSE @[v]],
               !.frames = SubSeq(@, 1, Len(@) - 1)]

\* restoreSubgraph(): pop a frame; the excluded vertices are alive again and
\* every vertex of the frame gets back the watermark it had at the push.
restoreSubgraph(G) ==
  LET f == G.frames[Len(G.frames)]
  IN [G EXCEPT !.degree = [v \in DOMAIN @ |->
                             IF v \in Range(f.alive) THEN f.savedDegree[v] ELSE @[v]],
               !.alive = f.alive,
               !.status = [v \in DOMAIN @ |->
                             IF v \in Range(f.excluded) THEN "alive" ELSE @[v]],
               !.frames = SubSeq(@, 1, Len(@) - 1)]

degree(G, u) == G.degree[u]

\* The vertices the half-edges of u lead to, hidden ones included.
neighboursOf(G, u) == {G.g[u][i].to : i \in 1..Len(G.g[u])}

\* xs followed by the entries of ys that are not yet in it.
RECURSIVE appendNew(_, _)
appendNew(xs, ys) ==
  IF ys = <<>> THEN xs
  ELSE appendNew(IF Head(ys) \in Range(xs) THEN xs ELSE Append(xs, Head(ys)), Tail(ys))

\* subdivisionVertices(subset) that walks the whole adjacency list.
RECURSIVE subdivisionVerticesAllEdges(_, _)
subdivisionVerticesAllEdges(G, subset) ==
  IF subset = <<>> THEN <<>>
  ELSE LET u == subset[Len(subset)]
           before == subdivisionVerticesAllEdges(G, SubSeq(subset, 1, Len(subset) - 1))
       IN appendNew(before, <<u>> \o [i \in 1..Len(G.g[u]) |-> G.g[u][i].to])

\* subdivisionVertices(subset): each vertex of the subset and the vertices
\* its visible half-edges lead to, every vertex once.
RECURSIVE subdivisionVertices(_, _)
subdivisionVertices(G, subset) ==
  IF subset = <<>> THEN <<>>
  ELSE LET u == subset[Len(subset)]
           before == subdivisionVertices(G, SubSeq(subset, 1, Len(subset) - 1))
       IN appendNew(before, <<u>> \o [i \in 1..G.degree[u] |-> G.g[u][i].to])

\* edgeCount(): visible edges, each counted once.
edgeCount(G) == SumOver(G.degree, Range(G.alive)) \div 2

\* volume(): the sum of the visible degrees.
volume(G) == SumOver(G.degree, Range(G.alive))

(***************************************************************************)
(* The graphs the exploration starts from: those of the unit tests of the  *)
(* subset graph and of the scenarios of the specification, and every       *)
(* prefix of their edge lists.                                             *)
(***************************************************************************)
TestGraphs ==
  { [n |-> 4, es |-> << <<0, 1>>, <<1, 2>>, <<0, 2>>, <<0, 3>> >>],
    [n |-> 5, es |-> << <<0, 1>>, <<0, 2>>, <<1, 4>>, <<2, 4>>, <<3, 4>> >>],
    [n |-> 5, es |-> << <<0, 1>>, <<0, 2>>, <<1, 2>>, <<2, 3>>, <<2, 4>>, <<3, 4>> >>],
    [n |-> 4, es |-> << <<0, 1>>, <<0, 2>>, <<2, 2>>, <<2, 3>> >>],
    [n |-> 3, es |-> << <<0, 1>>, <<0, 1>>, <<1, 2>> >>] }

\* The subset graph when another component is explored.
SGOff ==
  /\ sg = EmptyGraph(0)
  /\ sg0 = EmptyGraph(0)
  /\ sgTodo = <<>>
  /\ sgPhase = "off"

SGInit ==
  /\ \E gr \in TestGraphs :
       /\ sg = EmptyGraph(gr.n)
       /\ sg0 = EmptyGraph(gr.n)
       /\ sgTodo = gr.es
  /\ sgPhase = "build"

\* The subset-graph operations leave the other components alone.
SGOthers == UNCHANGED <<ufVars, cmVars, edVars, fnVars>>

\* The constructor adds the next edge of its list.
SGAddEdge ==
  /\ sgPhase = "build"
  /\ sgTodo # <<>>
  /\ LET e == Head(sgTodo)
         G1 == WithEdge(sg, e[1], e[2], 0)
     IN /\ sg' = G1
        /\ sg0' = G1
  /\ sgTodo' = Tail(sgTodo)
  /\ UNCHANGED sgPhase
  /\ SGOthers

SGRemove(u) ==
  /\ sg.status[u] = "alive"
  /\ Len(sg.removed) < MaxRemoved
  /\ sg' = remove(sg, u)
  /\ sgPhase' = "run"
  /\ UNCHANGED <<sgTodo, sg0>>
  /\ SGOthers

SGSubgraph(S) ==
  /\ Len(sg.frames) < MaxFrames
  /\ sg' = subgraph(sg, S)
  /\ sgPhase' = "run"
  /\ UNCHANGED <<sgTodo, sg0>>
  /\ SGOthers

SGRestoreRemoves ==
  /\ sg' = restoreRemoves(sg)
  /\ sgPhase' = "run"
  /\ UNCHANGED <<sgTodo, sg0>>
  /\ SGOthers

\* Removes and their undos are paired inside a frame: a frame is popped
\* once its own removes are undone.
SGRestoreSubgraph ==
  /\ sg.frames # <<>>
  /\ removedSize(sg) = 0
  /\ sg' = restoreSubgraph(sg)
  /\ sgPhase' = "run"
  /\ UNCHANGED <<sgTodo, sg0>>
  /\ SGOthers

NextSG ==
  \/ SGAddEdge
  \/ \E u \in VerticesOf(sg) : SGRemove(u)
  \/ \E S \in SUBSET Range(sg.alive) : SGSubgraph(S)
  \/ SGRestoreRemoves
  \/ SGRestoreSubgraph


(***************************************************************************)
(* The unit-flow engine of lib/unit_flow.cpp.  A flow graph F is a graph   *)
(* value with four more fields, one entry per vertex:                      *)
(*   absorbed, sink, height, nextEdgeIdx                                   *)
(* UnitFlow(n) zero-initialises all four.                                  *)
(***************************************************************************)
FlowGraph(n) ==
  [absorbed    |-> [u \in 0..(n - 1) |-> 0],
   sink        |-> [u \in 0..(n - 1) |-> 0],
   height      |-> [u \in 0..(n - 1) |-> 0],
   nextEdgeIdx |-> [u \in 0..(n - 1) |-> 0]] @@ EmptyGraph(n)

\* excess(u) = absorbed(u) - sink(u).
excess(F, u) == F.absorbed[u] - F.sink[u]

\* residual(e) = capacity(e) - flow(e).
residual(e) == e.capacity - e.flow

\* flowIn(u): the flow entering u, read off u's own half-edges, on which flow
\* into u shows as negative flow.
flowIn(g, u) ==
  LET into == [i \in 1..Len(g[u]) |-> IF g[u][i].flow < 0 THEN 0 - g[u][i].flow ELSE 0]
  IN SumOver(into, DOMAIN into)

addSource(F, u, k) == [F EXCEPT !.absorbed[u] = @ + k]

addSink(F, u, k) == [F EXCEPT !.sink[u] = @ + k]

\* std::priority_queue with std::greater: top() is the least (height, vertex).
PairLess(a, b) == a[1] < b[1] \/ (a[1] = b[1] /\ a[2] < b[2])

top(queue) ==
  CHOOSE a \in BagToSet(queue) : \A b \in BagToSet(queue) : a = b \/ PairLess(a, b)

pop(queue) == queue (-) SetToBag({top(queue)})

push(queue, pair) == queue (+) SetToBag({pair})

\* compute, lines 27-31: the height cap, and the queue of the vertices with
\* excess.
computeMaxH(F, maxHeight) == Min2(maxHeight, 2 * size(F) + 1)

computeQueue(F) ==
  LET start == {u \in 0..(size(F) - 1) : excess(F, u) > 0}
  IN SetToBag({<<F.height[u], u>> : u \in start})

\* The half-edge the loop looks at: graph[u][nextEdgeIdx[u]], u the vertex on
\* top of the queue.
currentEdge(F, queue) ==
  LET u == top(queue)[2] IN F.g[u][F.nextEdgeIdx[u] + 1]

\* Line 36: the vertex on top has no edges.
isDiscard(F, queue) == F.g[top(queue)[2]] = <<>>

\* Lines 42-43: the push condition.
isPush(F, queue) ==
  /\ ~isDiscard(F, queue)
  /\ LET e == currentEdge(F, queue)
     IN /\ excess(F, e.from) > 0
        /\ residual(e) > 0
        /\ F.height[e.from] = F.height[e.to] + 1

\* Line 60: every edge has been tried.
isRelabel(F, queue) ==
  /\ ~isDiscard(F, queue)
  /\ ~isPush(F, queue)
  /\ LET e == currentEdge(F, queue)
     IN F.nextEdgeIdx[e.from] = Len(F.g[e.from]) - 1

isAdvance(F, queue) ==
  /\ ~isDiscard(F, queue)
  /\ ~isPush(F, queue)
  /\ ~isRelabel(F, queue)

\* Lines 46-47: the amount pushed.
pushDelta(F, e) == Min2(Min2(excess(F, e.from), residual(e)), degree(F, e.to))

\* Lines 49-53: the flow after the push of delta over e = graph[u][i].
pushFlow(F, e, delta) ==
  [F EXCEPT !.g[e.from][F.nextEdgeIdx[e.from] + 1].flow = @ + delta,
            !.g[e.to][e.revIdx + 1].flow = @ - delta,
            !.absorbed = [@ EXCEPT ![e.from] = @ - delta, ![e.to] = @ + delta]]

\* The queue after a push that never enqueues the receiving vertex.
pushQueueNoEnqueue(F1, queue, e, cap) ==
  IF F1.height[e.from] >= cap \/ excess(F1, e.from) = 0
  THEN pop(queue) ELSE queue

\* Lines 56-59: the queue after the push.
pushQueue(F1, queue, e, cap) ==
  LET q1 == IF F1.height[e.from] >= cap \/ excess(F1, e.from) = 0
            THEN pop(queue) ELSE queue
  IN IF F1.height[e.to] < cap /\ excess(F1, e.to) > 0
     THEN push(q1, <<F1.height[e.to], e.to>>) ELSE q1

\* Relabel that leaves the height where it is.
relabelFlowNoRaise(F, e) ==
  [F EXCEPT !.nextEdgeIdx[e.from] = 0]

\* Relabel that raises the height by two.
relabelFlowByTwo(F, e) ==
  [F EXCEPT !.height[e.from] = @ + 2, !.nextEdgeIdx[e.from] = 0]

\* Lines 62-64: relabel.
relabelFlow(F, e) ==
  [F EXCEPT !.height[e.from] = @ + 1, !.nextEdgeIdx[e.from] = 0]

\* Lines 62, 66-67: the queue after the relabel.
relabelQueue(F1, queue, e, cap) ==
  IF F1.height[e.from] < cap
  THEN push(pop(queue), <<F1.height[e.from], e.from>>) ELSE pop(queue)

\* Line 69.
advanceFlow(F, e) == [F EXCEPT !.nextEdgeIdx[e.from] = @ + 1]

\* Lines 73-78: the vertices with excess, in increasing order.
RECURSIVE excessList(_, _)
excessList(F, u) ==
  IF u >= size(F) THEN <<>>
  ELSE (IF excess(F, u) > 0 THEN <<u>> ELSE <<>>) \o excessList(F, u + 1)

\* reset(), lines 81-89.  The loop over graph[u] binds each edge by value
\* ("for (auto edge : graph[u]) edge.flow = 0"), so the assignment changes a
\* copy and the flow stored in the graph stays; absorbed, sink and
\* nextEdgeIdx are zeroed; heights are not touched.
reset(F) ==
  [F EXCEPT !.absorbed = [u \in DOMAIN @ |-> 0],
            !.sink = [u \in DOMAIN @ |-> 0],
            !.nextEdgeIdx = [u \in DOMAIN @ |-> 0]]

\* matching, lines 103-128: the depth-first search from one source.  st holds
\* the graph, absorbed and the visited set of this search; the result adds
\* match, the vertex found or -1.
RECURSIVE dfs(_, _, _)
RECURSIVE dfsEdges(_, _, _, _)
dfs(sinkOf, st, u) ==
  IF u \in st.visited THEN [st EXCEPT !.match = -1]
  ELSE dfsEdges(sinkOf, [st EXCEPT !.visited = @ \cup {u}], u, 1)

dfsEdges(sinkOf, st, u, i) ==
  IF i > Len(st.g[u]) THEN [st EXCEPT !.match = -1]
  ELSE LET e == st.g[u][i]
       IN IF e.flow <= 0 THEN dfsEdges(sinkOf, st, u, i + 1)
          ELSE IF flowIn(st.g, e.to) > 0 /\ sinkOf[e.to] > 0
               THEN [st EXCEPT !.g[u][i].flow = @ - 1,
                               !.absorbed[e.to] = @ - 1,
                               !.match = e.to]
               ELSE LET r == dfs(sinkOf, st, e.to)
                    IN IF r.match # -1
                       THEN [r EXCEPT !.g[u][i].flow = @ - 1]
                       ELSE dfsEdges(sinkOf, r, u, i + 1)

\* matching, lines 130-136: one search per source; res holds the flow graph
\* and the pairs found so far.
RECURSIVE matchingLoop(_, _, _)
matchingLoop(F, sources, matches) ==
  IF sources = <<>> THEN [F |-> F, matches |-> matches]
  ELSE LET u == Head(sources)
           r == dfs(F.sink, [g |-> F.g, absorbed |-> F.absorbed,
                             visited |-> {}, match |-> -1], u)
           F1 == [F EXCEPT !.g = r.g, !.absorbed = r.absorbed]
       IN matchingLoop(F1, Tail(sources),
                       IF r.match # -1 THEN Append(matches, <<u, r.match>>)
                       ELSE matches)

matching(F, sources) == matchingLoop(F, sources, <<>>)

(***************************************************************************)
(* Flow graphs the engine is explored on, edges as (u, v, capacity): the   *)
(* single edge of scenario S7, a path with a self-loop and a wider edge, a  *)
(* triangle, and every prefix of each list.                                *)
(***************************************************************************)
FlowTestGraphs ==
  { [n |-> 2, es |-> << <<0, 1, 1>> >>],
    [n |-> 3, es |-> << <<0, 1, 1>>, <<1, 1, 1>>, <<1, 2, 2>> >>],
    [n |-> 3, es |-> << <<0, 1, 2>>, <<1, 2, 1>>, <<0, 2, 1>> >>] }

\* All lists of at most k distinct vertices of S.
DistinctLists(S, k) ==
  {l \in UNION {[1..n -> S] : n \in 0..k} :
     \A i, j \in 1..Len(l) : i # j => l[i] # l[j]}

\* The record of a call: its name and, where a property needs them, the name
\* of the call before it (prev) and the flow graph it started from (before).
Called(op) == [op |-> op, prev |-> "", before |-> FlowGraph(0)]

\* What a call returned: compute its list of vertices with excess, matching
\* its list of pairs.
Returned(cut, pairs) == [levelCut |-> cut, matches |-> pairs]

UFOff ==
  /\ uf = FlowGraph(0)
  /\ ufTodo = <<>>
  /\ ufPc = "off"
  /\ q = EmptyBag
  /\ maxH = 0
  /\ ufRet = Returned(<<>>, <<>>)
  /\ ufLast = Called("none")
  /\ ufCalls = 0

UFInit ==
  /\ \E gr \in FlowTestGraphs :
       /\ uf = FlowGraph(gr.n)
       /\ ufTodo = gr.es
  /\ ufPc = "build"
  /\ q = EmptyBag
  /\ maxH = 0
  /\ ufRet = Returned(<<>>, <<>>)
  /\ ufLast = Called("none")
  /\ ufCalls = 0

\* The engine's operations leave the other components alone.
UFOthers == UNCHANGED <<sgVars, cmVars, edVars, fnVars>>

UFIdle == ufPc \in {"build", "idle"}

UFAddEdge ==
  /\ ufPc = "build"
  /\ ufTodo # <<>>
  /\ LET e == Head(ufTodo)
     IN /\ uf' = WithEdge(uf, e[1], e[2], e[3])
        /\ ufLast' = Called("addEdge")
  /\ ufTodo' = Tail(ufTodo)
  /\ UNCHANGED <<ufPc, q, maxH, ufRet, ufCalls>>
  /\ UFOthers

UFAddSource(u, k) ==
  /\ UFIdle
  /\ SumOver(uf.absorbed, VerticesOf(uf)) + k <= MaxUnits
  /\ uf' = addSource(uf, u, k)
  /\ ufPc' = "idle"
  /\ ufLast' = Called("addSource")
  /\ UNCHANGED <<ufTodo, q, maxH, ufRet, ufCalls>>
  /\ UFOthers

UFAddSink(u, k) ==
  /\ UFIdle
  /\ SumOver(uf.sink, VerticesOf(uf)) + k <= MaxUnits
  /\ uf' = addSink(uf, u, k)
  /\ ufPc' = "idle"
  /\ ufLast' = Called("addSink")
  /\ UNCHANGED <<ufTodo, q, maxH, ufRet, ufCalls>>
  /\ UFOthers

UFReset ==
  /\ UFIdle
  /\ ufCalls < MaxCalls
  /\ uf' = reset(uf)
  /\ ufPc' = "idle"
  /\ ufLast' = [Called("reset") EXCEPT !.before = uf]
  /\ ufCalls' = ufCalls + 1
  /\ UNCHANGED <<ufTodo, q, maxH, ufRet>>
  /\ UFOthers

\* compute(maxHeight) up to the queue loop.
UFComputeStart(maxHeight) ==
  /\ UFIdle
  /\ ufCalls < MaxCalls
  /\ ufPc' = "compute"
  /\ maxH' = computeMaxH(uf, maxHeight)
  /\ q' = computeQueue(uf)
  /\ ufCalls' = ufCalls + 1
  /\ ufLast' = [Called("computing") EXCEPT !.before = uf]
  /\ UNCHANGED <<uf, ufTodo, ufRet>>
  /\ UFOthers

\* One turn of the queue loop: a vertex without edges is dropped.
UFDiscard ==
  /\ ufPc = "compute"
  /\ q # EmptyBag
  /\ isDiscard(uf, q)
  /\ q' = pop(q)
  /\ UNCHANGED <<uf, ufTodo, ufPc, maxH, ufRet, ufLast, ufCalls>>
  /\ UFOthers

UFPush ==
  /\ ufPc = "compute"
  /\ q # EmptyBag
  /\ isPush(uf, q)
  /\ LET e == currentEdge(uf, q)
         F1 == pushFlow(uf, e, pushDelta(uf, e))
     IN /\ uf' = F1
        /\ q' = pushQueue(F1, q, e, maxH)
  /\ UNCHANGED <<ufTodo, ufPc, maxH, ufRet, ufLast, ufCalls>>
  /\ UFOthers

UFRelabel ==
  /\ ufPc = "compute"
  /\ q # EmptyBag
  /\ isRelabel(uf, q)
  /\ LET e == currentEdge(uf, q)
         F1 == relabelFlow(uf, e)
     IN /\ uf' = F1
        /\ q' = relabelQueue(F1, q, e, maxH)
  /\ UNCHANGED <<ufTodo, ufPc, maxH, ufRet, ufLast, ufCalls>>
  /\ UFOthers

UFAdvance ==
  /\ ufPc = "compute"
  /\ q # EmptyBag
  /\ isAdvance(uf, q)
  /\ uf' = advanceFlow(uf, currentEdge(uf, q))
  /\ UNCHANGED <<ufTodo, ufPc, q, maxH, ufRet, ufLast, ufCalls>>
  /\ UFOthers

\* The queue is empty: compute returns the vertices with excess.
UFComputeReturn ==
  /\ ufPc = "compute"
  /\ q = EmptyBag
  /\ ufPc' = "idle"
  /\ ufRet' = Returned(excessList(uf, 0), <<>>)
  /\ ufLast' = Called("compute")
  /\ UNCHANGED <<uf, ufTodo, q, maxH, ufCalls>>
  /\ UFOthers

UFMatching(sources) ==
  /\ UFIdle
  /\ ufCalls < MaxCalls
  /\ LET r == matching(uf, sources)
     IN /\ uf' = r.F
        /\ ufRet' = Returned(<<>>, r.matches)
  /\ ufPc' = "idle"
  /\ ufCalls' = ufCalls + 1
  /\ ufLast' = [Called("matching") EXCEPT !.prev = ufLast.op]
  /\ UNCHANGED <<ufTodo, q, maxH>>
  /\ UFOthers

UFStep == UFDiscard \/ UFPush \/ UFRelabel \/ UFAdvance \/ UFComputeReturn

NextUF ==
  \/ UFAddEdge
  \/ \E u \in VerticesOf(uf), k \in 1..MaxUnits : UFAddSource(u, k)
  \/ \E u \in VerticesOf(uf), k \in 1..MaxUnits : UFAddSink(u, k)
  \/ UFReset
  \/ \E maxHeight \in 1..MaxHeightArg : UFComputeStart(maxHeight)
  \/ UFDiscard
  \/ UFPush
  \/ UFRelabel
  \/ UFAdvance
  \/ UFComputeReturn
  \/ \E sources \in DistinctLists(VerticesOf(uf), MaxSources) : UFMatching(sources)


(***************************************************************************)
(* The cut-matching solver of lib/cut_matching.cpp, on the two flow graphs *)
(* the decomposition driver builds from the undirected input graph.  What  *)
(* a round computes with floating point (the flow vector, the proposed     *)
(* cut) and the flow routed by the engine are left open here: a round is   *)
(* taken for every level cut of at most MaxCut vertices.                   *)
(***************************************************************************)

\* constructFlowGraph: one edge of capacity 0 per edge of g.
RECURSIVE addEdges(_, _)
addEdges(F, es) ==
  IF es = <<>> THEN F
  ELSE addEdges(WithEdge(F, Head(es)[1], Head(es)[2], 0), Tail(es))

constructFlowGraph(gr) == addEdges(EmptyGraph(gr.n), gr.es)

\* constructSubdivisionFlowGraph with splitVertex = g.size() + f.edgeCount() / 4.
RECURSIVE addSplitEdgesShared(_, _, _)
addSplitEdgesShared(F, n, es) ==
  IF es = <<>> THEN F
  ELSE LET splitVertex == n + edgeCount(F) \div 4
           F1 == WithEdge(F, Head(es)[1], splitVertex, 0)
           F2 == WithEdge(F1, Head(es)[2], splitVertex, 0)
       IN addSplitEdgesShared(F2, n, Tail(es))

\* constructSubdivisionFlowGraph: every edge (from, to) becomes the path
\* from - splitVertex - to, splitVertex = g.size() + f.edgeCount() / 2.
RECURSIVE addSplitEdges(_, _, _)
addSplitEdges(F, n, es) ==
  IF es = <<>> THEN F
  ELSE LET splitVertex == n + edgeCount(F) \div 2
           F1 == WithEdge(F, Head(es)[1], splitVertex, 0)
           F2 == WithEdge(F1, Head(es)[2], splitVertex, 0)
       IN addSplitEdges(F2, n, Tail(es))

constructSubdivisionFlowGraph(gr) ==
  addSplitEdges(EmptyGraph(gr.n + Len(gr.es)), gr.n, gr.es)

\* globalVolume(begin, end): the degrees in the whole graph, hidden
\* half-edges included, summed over the vertices of the range.
globalVolume(G, us) ==
  LET globalDegree == [u \in VerticesOf(G) |-> Len(G.g[u])]
  IN SumOver(globalDegree, Range(us))

\* Solver::Solver, line 28: capacity = ceil(1 / phi / T), phi = 1 / phiInv.
solverCapacity(phiInv, T) == (phiInv + T - 1) \div T

\* Solver::Solver, lines 29-32: every visible half-edge at a vertex of graph,
\* and its reverse, gets the capacity.
setCapacities(Sub, outer, capacity) ==
  LET visibleAt(u, i) == u \in outer /\ i <= Sub.degree[u]
      touched(u, i) ==
        \/ visibleAt(u, i)
        \/ visibleAt(Sub.g[u][i].to, Sub.g[u][i].revIdx + 1)
  IN [Sub EXCEPT !.g = [u \in DOMAIN @ |->
        [i \in 1..Len(@[u]) |->
           IF touched(u, i) THEN [@[u][i] EXCEPT !.capacity = capacity]
           ELSE @[u][i]]]]

\* Lines 44-51 with the counter left where it is.
RECURSIVE numberSplitSame(_, _, _)
numberSplitSame(idx, us, count) ==
  IF us = <<>> THEN idx
  ELSE IF idx[Head(us)] >= 0
       THEN numberSplitSame([idx EXCEPT ![Head(us)] = count], Tail(us), count)
       ELSE numberSplitSame(idx, Tail(us), count)

\* Solver::Solver, lines 44-51: the split vertices of the subset are numbered
\* 0, 1, ... in the order of the alive list.
RECURSIVE numberSplit(_, _, _)
numberSplit(idx, us, count) ==
  IF us = <<>> THEN idx
  ELSE IF idx[Head(us)] >= 0
       THEN numberSplit([idx EXCEPT ![Head(us)] = count], Tail(us), count + 1)
       ELSE numberSplit(idx, Tail(us), count)

\* The subsets of S of at most k elements.
RECURSIVE SubsetsUpTo(_, _)
SubsetsUpTo(S, k) ==
  IF k = 0 THEN {{}}
  ELSE LET smaller == SubsetsUpTo(S, k - 1)
       IN smaller \cup {c \cup {x} : c \in smaller, x \in S}

\* The elements of a set of numbers in increasing order.
RECURSIVE SortedSeq(_)
SortedSeq(S) ==
  IF S = {} THEN <<>>
  ELSE LET least == CHOOSE x \in S : \A y \in S : x <= y
       IN <<least>> \o SortedSeq(S \ {least})

\* The orders in which a hash set holding S can be iterated: the order of
\* absl::flat_hash_set is unspecified and differs from run to run.
iterationOrders(S) == {l \in DistinctLists(S, Cardinality(S)) : Len(l) = Cardinality(S)}

\* compute, lines 299-303 and 309-313: each vertex of us leaves subdivGraph,
\* and graph too when it is an original vertex.
RECURSIVE removeFromBoth(_, _, _)
removeFromBoth(graphs, subdivisionIdx, us) ==
  IF us = <<>> THEN graphs
  ELSE LET u == Head(us)
           g1 == IF subdivisionIdx[u] = -1 THEN remove(graphs.graph, u)
                 ELSE graphs.graph
       IN removeFromBoth([graph |-> g1, subdivGraph |-> remove(graphs.subdivGraph, u)],
                         subdivisionIdx, Tail(us))

\* Lines 305-308 finding no vertex.
zeroDegreesNone(Sub) == <<>>

\* compute, lines 305-308: the alive vertices of subdivGraph of degree 0.
zeroDegrees(Sub) == SelectSeq(Sub.alive, LAMBDA u : degree(Sub, u) = 0)

\* compute, lines 241-243: the volume of the removed vertices of subdivGraph.
removedVolume(Sub) == globalVolume(Sub, RemovedList(Sub))

\* compute, line 230.
lowerVolumeBalanceOf(numSplitNodes, T) == (numSplitNodes \div 10) \div T

\* compute, lines 231-232, minBalance = num / den: the product is truncated.
targetVolumeBalanceOf(lower, minBalance, volume0) ==
  Max2(lower, (minBalance[1] * volume0) \div minBalance[2])

\* The loop condition with its bound on the iterations off by one.
loopConditionOneMore(iterations, T, removedVol, target) ==
  iterations <= T /\ removedVol <= target

\* compute, lines 240-243: the loop condition.
loopCondition(iterations, T, removedVol, target) ==
  iterations < T /\ removedVol <= target

\* The classification with the volume test left out.
classifyNoVolume(S, R, volR, lower) ==
  IF S # 0 /\ R # 0 THEN "Balanced"
  ELSE IF R = 0 THEN "Expander"
  ELSE IF S = 0 THEN "Expander"
  ELSE "NearExpander"

\* compute, lines 376-387: S = graph->size(), R = graph->removedSize(), volR
\* the volume of the removed vertices of subdivGraph.
classify(S, R, volR, lower) ==
  IF S # 0 /\ R # 0 /\ volR > lower THEN "Balanced"
  ELSE IF R = 0 THEN "Expander"
  ELSE IF S = 0 THEN "Expander"
  ELSE "NearExpander"

\* Result::Result(), line 13.
Result == [type |-> "Expander", iterations |-> 0, congestion |-> 1]

(***************************************************************************)
(* Input graphs: a single edge, a path, a triangle with a pendant vertex,  *)
(* and a graph of ten edges with a vertex of degree one.                   *)
(***************************************************************************)
CMTestGraphs ==
  { [n |-> 2, es |-> << <<0, 1>> >>],
    [n |-> 3, es |-> << <<0, 1>>, <<1, 2>> >>],
    [n |-> 4, es |-> << <<0, 1>>, <<0, 2>>, <<1, 2>>, <<2, 3>> >>],
    [n |-> 6, es |-> << <<0, 1>>, <<0, 2>>, <<0, 3>>, <<0, 4>>, <<0, 5>>,
                        <<1, 2>>, <<1, 3>>, <<1, 4>>, <<2, 3>>, <<2, 4>> >>] }

\* Parameters: tConst, the value of int(tFactor * log10(edgeCount)^2),
\* 1 / phi, and minBalance as a fraction.
TConsts == {-1, 0, 1}
LogTerms == {0, 1}
PhiInvs == {3}
MinBalances == {<<0, 1>>, <<1, 10>>, <<1, 2>>}

NoSolver == [T |-> 0]

CMOff ==
  /\ cmIn = [n |-> 0, es |-> <<>>]
  /\ cmGraph = EmptyGraph(0)
  /\ cmSubdiv = EmptyGraph(0)
  /\ cmPc = "off"
  /\ cm = NoSolver

CMInit ==
  /\ cmIn \in CMTestGraphs
  /\ cmGraph = EmptyGraph(0)
  /\ cmSubdiv = EmptyGraph(0)
  /\ cmPc = "new"
  /\ cm = NoSolver

\* The solver's operations leave the other components alone.
CMOthers == UNCHANGED <<sgVars, ufVars, edVars, fnVars>>

\* ExpanderDecomposition::Solver::Solver builds the two flow graphs.
CMConstruct ==
  /\ cmPc = "new"
  /\ cmGraph' = constructFlowGraph(cmIn)
  /\ cmSubdiv' = constructSubdivisionFlowGraph(cmIn)
  /\ cmPc' = "built"
  /\ UNCHANGED <<cmIn, cm>>
  /\ CMOthers

\* CutMatching::Solver::Solver.
CMSolver(tConst, logTerm, phiInv) ==
  /\ cmPc = "built"
  /\ LET T == Max2(1, tConst + logTerm)
         idx0 == [u \in VerticesOf(cmSubdiv) |-> IF u < cmIn.n THEN -1 ELSE 0]
     IN /\ cm' = [T |-> T,
                  numSplitNodes |-> size(cmSubdiv) - size(cmGraph),
                  subdivisionIdx |-> numberSplit(idx0, cmSubdiv.alive, 0)]
        /\ cmSubdiv' = setCapacities(cmSubdiv, Range(cmGraph.alive),
                                     solverCapacity(phiInv, T))
  /\ cmPc' = "solver"
  /\ UNCHANGED <<cmIn, cmGraph>>
  /\ CMOthers

\* compute, lines 224-228: nothing to do with at most one split vertex.
CMComputeEarly ==
  /\ cmPc = "solver"
  /\ cm.numSplitNodes <= 1
  /\ cm' = cm @@ [rounds |-> <<>>, result |-> Result]
  /\ cmPc' = "done"
  /\ UNCHANGED <<cmIn, cmGraph, cmSubdiv>>
  /\ CMOthers

\* compute, lines 230-239: the balances and the round counter.
CMComputeStart(minBalance) ==
  /\ cmPc = "solver"
  /\ cm.numSplitNodes > 1
  /\ LET lower == lowerVolumeBalanceOf(cm.numSplitNodes, cm.T)
         target == targetVolumeBalanceOf(lower, minBalance,
                                         globalVolume(cmSubdiv, cmSubdiv.alive))
     IN cm' = cm @@ [lowerVolumeBalance |-> lower,
                     targetVolumeBalance |-> target,
                     minBalance |-> minBalance,
                     volume0 |-> globalVolume(cmSubdiv, cmSubdiv.alive),
                     iterations |-> 0,
                     rounds |-> <<>>]
  /\ cmPc' = "loop"
  /\ UNCHANGED <<cmIn, cmGraph, cmSubdiv>>
  /\ CMOthers

\* One round, lines 245-360, for the level cut levelCut: its vertices and
\* then the vertices left with degree 0 are removed.  rounds notes the
\* removed volume the round started with.  The loop of line 298 iterates a
\* hash set; here it goes in ascending order, which gives the sizes, degrees
\* and volumes of every order, and DetRound below takes each order.
CMRound(levelCut) ==
  /\ cmPc = "loop"
  /\ loopCondition(cm.iterations, cm.T, removedVolume(cmSubdiv), cm.targetVolumeBalance)
  /\ LET cut == removeFromBoth([graph |-> cmGraph, subdivGraph |-> cmSubdiv],
                               cm.subdivisionIdx, SortedSeq(levelCut))
         zero == removeFromBoth(cut, cm.subdivisionIdx, zeroDegrees(cut.subdivGraph))
     IN /\ cmGraph' = zero.graph
        /\ cmSubdiv' = zero.subdivGraph
  /\ cm' = [cm EXCEPT !.iterations = @ + 1,
                      !.rounds = Append(@, removedVolume(cmSubdiv))]
  /\ UNCHANGED <<cmIn, cmPc>>
  /\ CMOthers

\* The loop is left, lines 363-412: the result is classified; when every
\* original vertex was removed the removes of graph are restored.
CMFinish ==
  /\ cmPc = "loop"
  /\ ~loopCondition(cm.iterations, cm.T, removedVolume(cmSubdiv), cm.targetVolumeBalance)
  /\ LET S == size(cmGraph)
         R == removedSize(cmGraph)
         volR == removedVolume(cmSubdiv)
         type == classify(S, R, volR, cm.lowerVolumeBalance)
     IN /\ cm' = cm @@ [result |-> [type |-> type, iterations |-> cm.iterations,
                                    congestion |-> 1],
                        S |-> S, R |-> R, volR |-> volR]
        /\ cmGraph' = IF type = "Expander" /\ R # 0 THEN restoreRemoves(cmGraph)
                      ELSE cmGraph
  /\ cmPc' = "done"
  /\ UNCHANGED <<cmIn, cmSubdiv>>
  /\ CMOthers

CMStep ==
  \/ \E levelCut \in SubsetsUpTo(Range(cmSubdiv.alive), MaxCut) : CMRound(levelCut)
  \/ CMFinish

NextCM ==
  \/ CMConstruct
  \/ \E tConst \in TConsts, logTerm \in LogTerms, phiInv \in PhiInvs :
       CMSolver(tConst, logTerm, phiInv)
  \/ CMComputeEarly
  \/ \E minBalance \in MinBalances : CMComputeStart(minBalance)
  \/ \E levelCut \in SubsetsUpTo(Range(cmSubdiv.alive), MaxCut) : CMRound(levelCut)
  \/ CMFinish

(***************************************************************************)
(* The decomposition driver, ExpanderDecomposition::Solver.  What the      *)
(* cut-matching solver and the trimming return for a subset is left open:  *)
(* every split of xs into a kept side a and a removed side r is taken.     *)
(***************************************************************************)

\* The flow graph's partition ids after construction: id 0 everywhere.
Partitioned(n) == [partition |-> [u \in 0..(n - 1) |-> 0], partitionCount |-> 1]

\* newPartition(subset, parent): a fresh id for every vertex of subset.
newPartition(F, subset) ==
  [partition |-> [u \in DOMAIN F.partition |->
                    IF u \in Range(subset) THEN F.partitionCount ELSE F.partition[u]],
   partitionCount |-> F.partitionCount + 1]

\* getPartition with a loop that stops one vertex early.
getPartitionStopsEarly(F) ==
  [id \in 0..(F.partitionCount - 1) |->
     SelectSeq(SortedSeq(DOMAIN F.partition \ {Cardinality(DOMAIN F.partition) - 1}),
               LAMBDA u : F.partition[u] = id)]

\* getPartition(), lines 443-448: one list per id below partitionCount; the
\* vertices are appended in increasing order.  A vertex whose id is not
\* below partitionCount lands in none of the lists.
getPartition(F) ==
  [id \in 0..(F.partitionCount - 1) |->
     SelectSeq(SortedSeq(DOMAIN F.partition), LAMBDA u : F.partition[u] = id)]

\* A call of compute that is still to run; depth counts the calls of compute
\* it is nested in.
Call(xs, partition) == [xs |-> xs, partition |-> partition, depth |-> 0]

\* The call compute(xs, partition) made from within call.
Nested(call, xs, partition) ==
  [Call(xs, partition) EXCEPT !.depth = call.depth + 1]

\* Line 413 without the upper bound.
recurseOnRNotEmpty(r, xs) == Len(r) > 0

\* Line 413: the removed side is recursed on when it is neither empty nor
\* all of xs.
recurseOnR(r, xs) == Len(r) > 0 /\ Len(r) < Len(xs)

EDOff ==
  /\ edFlow = Partitioned(0)
  /\ edStack = <<>>
  /\ edPc = "off"
  /\ edOut = <<>>

\* Solver::Solver, lines 438-440: compute(vertices, 0) on all the vertices.
EDInit ==
  /\ \E n \in 0..MaxVertices :
       /\ edFlow = Partitioned(n)
       /\ edStack = <<Call(SortedSeq(0..(n - 1)), 0)>>
  /\ edPc = "run"
  /\ edOut = <<>>

\* The driver's operations leave the other components alone.
EDOthers == UNCHANGED <<sgVars, ufVars, cmVars, fnVars>>

\* compute, lines 391-394: an empty subset.
EDEmpty ==
  /\ edPc = "run"
  /\ edStack # <<>>
  /\ Head(edStack).xs = <<>>
  /\ edStack' = Tail(edStack)
  /\ UNCHANGED <<edFlow, edPc, edOut>>
  /\ EDOthers

\* compute, lines 400-407: a balanced cut (a, r) of xs.
EDBalanced(a) ==
  /\ edPc = "run"
  /\ edStack # <<>>
  /\ LET call == Head(edStack)
         r == Range(call.xs) \ a
     IN /\ a # {} /\ a \subseteq Range(call.xs) /\ r # {}
        /\ edFlow' = newPartition(edFlow, SortedSeq(a))
        /\ edStack' = <<Nested(call, SortedSeq(a), edFlow.partitionCount),
                        Nested(call, SortedSeq(r), call.partition)>> \o Tail(edStack)
  /\ UNCHANGED <<edPc, edOut>>
  /\ EDOthers

\* compute, lines 408-418: a near expander a with r removed, and what the
\* trimming removes from a.
EDNearExpander(a, trimmed) ==
  /\ edPc = "run"
  /\ edStack # <<>>
  /\ LET call == Head(edStack)
         r == SortedSeq(Range(call.xs) \ a) \o SortedSeq(trimmed)
     IN /\ a # {} /\ a \subseteq Range(call.xs) /\ trimmed \subseteq a
        /\ IF recurseOnR(r, call.xs)
           THEN /\ edFlow' = newPartition(edFlow, r)
                /\ edStack' = <<Nested(call, r, edFlow.partitionCount)>> \o Tail(edStack)
           ELSE /\ edFlow' = edFlow
                /\ edStack' = Tail(edStack)
  /\ UNCHANGED <<edPc, edOut>>
  /\ EDOthers

\* compute, lines 419-421: an expander.
EDExpander ==
  /\ edPc = "run"
  /\ edStack # <<>>
  /\ Head(edStack).xs # <<>>
  /\ edStack' = Tail(edStack)
  /\ UNCHANGED <<edFlow, edPc, edOut>>
  /\ EDOthers

\* The recursion is over and getPartition() is read.
EDGetPartition ==
  /\ edPc = "run"
  /\ edStack = <<>>
  /\ edOut' = getPartition(edFlow)
  /\ edPc' = "done"
  /\ UNCHANGED <<edFlow, edStack>>
  /\ EDOthers

NextED ==
  \/ EDEmpty
  \/ \E a \in SUBSET DOMAIN edFlow.partition : EDBalanced(a)
  \/ \E a \in SUBSET DOMAIN edFlow.partition :
       \E trimmed \in SUBSET a : EDNearExpander(a, trimmed)
  \/ EDExpander
  \/ EDGetPartition

(***************************************************************************)
(* The cut player, Solver::proposeCut.  The flow vector holds integers,    *)
(* and every comparison of the code between doubles is made exactly, on    *)
(* both sides multiplied by the number of alive split vertices (or its     *)
(* square); rounding is not modelled.  A is the record of what the         *)
(* function reads: the alive list of subdivGraph, graph's size,            *)
(* subdivisionIdx and the flow vector.                                     *)
(***************************************************************************)
Reverse(xs) == [i \in 1..Len(xs) |-> xs[Len(xs) + 1 - i]]

\* The sum of g(x) over the entries x of the sequence xs.
SumSeq(xs, g(_)) == SumOver([i \in 1..Len(xs) |-> g(xs[i])], 1..Len(xs))

Abs(x) == IF x < 0 THEN 0 - x ELSE x

\* std::sort with cmpFlow, lines 162-166: ascending flow; entries of equal
\* flow keep their order.
RECURSIVE sortByFlow(_, _)
sortByFlow(xs, f) ==
  IF xs = <<>> THEN <<>>
  ELSE LET rest == sortByFlow(Tail(xs), f)
           before == SelectSeq(rest, LAMBDA y : f[y] < f[Head(xs)])
           after == SelectSeq(rest, LAMBDA y : ~(f[y] < f[Head(xs)]))
       IN before \o <<Head(xs)>> \o after

\* Lines 171-174 with the left side a copy of the right one: nothing is
\* popped from axRight.
halveCopies(axLeft, axRight) == [axLeft |-> axRight, axRight |-> axRight]

\* Lines 171-174: an empty left side takes the back of the right side until
\* it is no shorter, and the shorter side is the left one.
RECURSIVE halve(_, _)
halve(axLeft, axRight) ==
  IF Len(axLeft) < Len(axRight)
  THEN halve(Append(axLeft, axRight[Len(axRight)]), SubSeq(axRight, 1, Len(axRight) - 1))
  ELSE IF Len(axLeft) > Len(axRight)
       THEN [axLeft |-> axRight, axRight |-> axLeft]
       ELSE [axLeft |-> axLeft, axRight |-> axRight]

\* Lines 204-206 with the loop left after its first pop.
balanceRightOnce(cut) ==
  [cut EXCEPT !.axRight = SubSeq(@, 1, Max2(Len(@) - 1, Min2(Len(@), Len(cut.axLeft))))]

\* Lines 204-206: pop from axRight until it is no longer than axLeft.
balanceRight(cut) ==
  [cut EXCEPT !.axRight = SubSeq(@, 1, Min2(Len(@), Len(cut.axLeft)))]

\* Lines 212-215 with the loop left after its first pop.
popLeftOnce(axLeft, curSubdivisionCount) ==
  IF Len(axLeft) * 8 > curSubdivisionCount
  THEN SubSeq(axLeft, 1, Len(axLeft) - 1)
  ELSE axLeft

\* Lines 212-215: pop from axLeft while 8 |axLeft| > curSubdivisionCount.
RECURSIVE popLeft(_, _)
popLeft(axLeft, curSubdivisionCount) ==
  IF Len(axLeft) * 8 > curSubdivisionCount
  THEN popLeft(SubSeq(axLeft, 1, Len(axLeft) - 1), curSubdivisionCount)
  ELSE axLeft

\* Lines 124-201: the cut before the balancing step.
cutByPotential(A) ==
  LET curSubdivisionCount == Len(A.alive) - A.graphSize
      split == SelectSeq(A.alive, LAMBDA u : A.subdivisionIdx[u] >= 0)
      flowOf(u) == A.flow[A.subdivisionIdx[u] + 1]
      total == SumSeq(split, flowOf)
      \* curSubdivisionCount * (flow - avgFlow)
      dev(u) == flowOf(u) * curSubdivisionCount - total
      square(u) == dev(u) * dev(u)
      absDev(u) == Abs(dev(u))
      below == SelectSeq(split, LAMBDA u : dev(u) < 0)
      above == SelectSeq(split, LAMBDA u : ~(dev(u) < 0))
      leftLarger == Len(below) > Len(above)
      key == [u \in Range(split) |-> flowOf(u)]
      axLeft == sortByFlow(IF leftLarger THEN above ELSE below, key)
      axRight == sortByFlow(IF leftLarger THEN below ELSE above, key)
      totalPotential == SumSeq(split, square)
      leftPotential == SumSeq(axLeft, square)
      \* curSubdivisionCount * l
      l == SumSeq(axLeft, absDev)
      underMu(u) == dev(u) * curSubdivisionCount < 4 * l
      farAbove(u) == dev(u) * curSubdivisionCount >= 6 * l
  IN IF axLeft = <<>>
     THEN halve(axLeft, axRight) @@ [leftLarger |-> leftLarger, case |-> "empty"]
     ELSE IF 20 * leftPotential > totalPotential
     THEN [axLeft |-> axLeft,
           axRight |-> IF leftLarger THEN axRight ELSE Reverse(axRight),
           leftLarger |-> leftLarger, case |-> "potential"]
     ELSE [axLeft |-> SelectSeq(split, LAMBDA u : ~underMu(u) /\ farAbove(u)),
           axRight |-> Reverse(SelectSeq(split, underMu)),
           leftLarger |-> leftLarger, case |-> "mu"]

\* proposeCut, lines 121-221; before is the cut as line 203 sees it.
proposeCut(A, balancedCutStrategy) ==
  LET cut == cutByPotential(A)
      curSubdivisionCount == Len(A.alive) - A.graphSize
      balanced ==
        IF balancedCutStrategy THEN balanceRight(cut)
        ELSE [cut EXCEPT !.axLeft =
                popLeft(IF cut.leftLarger THEN Reverse(@) ELSE @, curSubdivisionCount)]
  IN [axLeft |-> balanced.axLeft, axRight |-> balanced.axRight,
      case |-> cut.case, before |-> [axLeft |-> cut.axLeft, axRight |-> cut.axRight],
      balancedCutStrategy |-> balancedCutStrategy]

\* The entries a short flow vector is put together from.
FlowValues == {-1, 0, 1, 5}

Run(value, count) == [i \in 1..count |-> value]

\* Flow vectors long enough for the potential of the smaller side to fall
\* to a twentieth of the whole: one whose smaller side lies below the
\* average, and one whose smaller side lies above it.
LongFlows ==
  {Run(-1, 20) \o Run(0, 19) \o Run(20, 1),
   Run(-120, 1) \o Run(-1, 30) \o Run(5, 30)}

FNOff ==
  /\ fnArgs = <<>>
  /\ fnResult = <<>>
  /\ fnPc = "off"

\* Two original vertices, then one split vertex per entry of the flow
\* vector, in the order of their indices.
cutArgs(flow) ==
  [alive |-> [i \in 1..(2 + Len(flow)) |-> i - 1], graphSize |-> 2,
   subdivisionIdx |-> [u \in 0..(1 + Len(flow)) |-> IF u < 2 THEN -1 ELSE u - 2],
   flow |-> flow]

PCInit ==
  /\ fnArgs \in {cutArgs(flow) : flow \in {<<>>} \union LongFlows}
  /\ fnResult = <<>>
  /\ fnPc = "args"

\* The functions leave the other components alone.
FNOthers == UNCHANGED <<sgVars, ufVars, cmVars, edVars>>

\* One more split vertex, with its entry of the flow vector.
PCAddSplit(value) ==
  /\ fnPc = "args"
  /\ Len(fnArgs.flow) < MaxSplit
  /\ LET u == fnArgs.graphSize + Len(fnArgs.flow)
     IN fnArgs' = [fnArgs EXCEPT !.alive = Append(@, u),
                                 !.subdivisionIdx = @ @@ (u :> Len(fnArgs.flow)),
                                 !.flow = Append(@, value)]
  /\ UNCHANGED <<fnResult, fnPc>>
  /\ FNOthers

\* An earlier round removed split vertex u: it keeps its index and its entry
\* of the flow vector and leaves the alive list.
PCRemoveSplit(u) ==
  /\ fnPc = "args"
  /\ u \in Range(fnArgs.alive)
  /\ fnArgs.subdivisionIdx[u] >= 0
  /\ Len(fnArgs.flow) + fnArgs.graphSize - Len(fnArgs.alive) < MaxDead
  /\ fnArgs' = [fnArgs EXCEPT !.alive = Without(@, {u})]
  /\ UNCHANGED <<fnResult, fnPc>>
  /\ FNOthers

PCProposeCut(balancedCutStrategy) ==
  /\ fnPc = "args"
  /\ fnResult' = proposeCut(fnArgs, balancedCutStrategy)
  /\ fnPc' = "cut"
  /\ UNCHANGED fnArgs
  /\ FNOthers

NextPC ==
  \/ \E value \in FlowValues : PCAddSplit(value)
  \/ \E u \in Range(fnArgs.alive) : PCRemoveSplit(u)
  \/ \E balancedCutStrategy \in BOOLEAN : PCProposeCut(balancedCutStrategy)

(***************************************************************************)
(* Two runs of compute's rounds on the same input.  Both runs get the same *)
(* level cut in every round, which is what the same graph, parameters and  *)
(* generator seed give as long as the runs agree; what is left to each run *)
(* is the order in which the loop of line 298 iterates the hash set        *)
(* removed.                                                                *)
(***************************************************************************)
\* The part of one round that changes the two graphs, lines 277-313, and
\* the remove calls it made, in their order.
removalRound(run, n, removed) ==
  LET subdivisionIdx == [u \in VerticesOf(run.subdivGraph) |-> IF u < n THEN -1 ELSE u - n]
      graphs == [graph |-> run.graph, subdivGraph |-> run.subdivGraph]
      cut == removeFromBoth(graphs, subdivisionIdx, removed)
      zero == zeroDegrees(cut.subdivGraph)
      after == removeFromBoth(cut, subdivisionIdx, zero)
  IN [graph |-> after.graph, subdivGraph |-> after.subdivGraph,
      removals |-> run.removals \o removed \o zero, rounds |-> run.rounds + 1]

\* A path, and a star whose centre has four split vertices as neighbours.
DetGraphs ==
  { [n |-> 3, es |-> << <<0, 1>>, <<1, 2>> >>],
    [n |-> 5, es |-> << <<0, 1>>, <<0, 2>>, <<0, 3>>, <<0, 4>> >>] }

DetInit ==
  /\ fnArgs \in DetGraphs
  /\ fnResult = LET run == [graph |-> constructFlowGraph(fnArgs),
                            subdivGraph |-> constructSubdivisionFlowGraph(fnArgs),
                            removals |-> <<>>, rounds |-> 0]
                IN <<run, run>>
  /\ fnPc = "runs"

\* One round of both runs: the first iterates the level cut in the order
\* first, the second in the order second.
DetRound(first, second) ==
  /\ fnPc = "runs"
  /\ fnResult[1].rounds < MaxRounds
  /\ fnResult' = <<removalRound(fnResult[1], fnArgs.n, first),
                   removalRound(fnResult[2], fnArgs.n, second)>>
  /\ UNCHANGED <<fnArgs, fnPc>>
  /\ FNOthers

NextDet ==
  \E levelCut \in SubsetsUpTo(Range(fnResult[1].subdivGraph.alive)
                                \cap Range(fnResult[2].subdivGraph.alive), MaxCut) :
    \E first, second \in iterationOrders(levelCut) :
      levelCut # {} /\ DetRound(first, second)

(***************************************************************************)
(* The two orders of undoing a subgraph call and the removes made after    *)
(* it.  fnArgs holds the graph G and, as at, the graph the last subgraph   *)
(* call was made on.                                                       *)
(***************************************************************************)
RECURSIVE buildGraph(_, _)
buildGraph(G, es) ==
  IF es = <<>> THEN G
  ELSE buildGraph(WithEdge(G, Head(es)[1], Head(es)[2], 0), Tail(es))

RSInit ==
  /\ \E gr \in TestGraphs :
       fnArgs = [G |-> buildGraph(EmptyGraph(gr.n), gr.es), at |-> EmptyGraph(0)]
  /\ fnResult = <<>>
  /\ fnPc = "graph"

RSRemove(u) ==
  /\ fnPc \in {"graph", "frame"}
  /\ fnArgs.G.status[u] = "alive"
  /\ removedSize(fnArgs.G) < MaxRemoved
  /\ fnArgs' = [fnArgs EXCEPT !.G = remove(@, u)]
  /\ UNCHANGED <<fnResult, fnPc>>
  /\ FNOthers

RSSubgraph(S) ==
  /\ fnPc \in {"graph", "frame"}
  /\ Len(fnArgs.G.frames) < MaxFrames
  /\ fnArgs' = [G |-> subgraph(fnArgs.G, S), at |-> fnArgs.G]
  /\ fnPc' = "frame"
  /\ UNCHANGED fnResult
  /\ FNOthers

\* The frame and its removes are undone, the removes first or the frame
\* first.
RSRestore(removesFirst) ==
  /\ fnPc = "frame"
  /\ fnResult' = [removesFirst |-> removesFirst,
                  G |-> IF removesFirst
                        THEN restoreSubgraph(restoreRemoves(fnArgs.G))
                        ELSE restoreRemoves(restoreSubgraph(fnArgs.G))]
  /\ fnPc' = "restored"
  /\ UNCHANGED fnArgs
  /\ FNOthers

\* subdivisionVertices is asked for a subset of the alive vertices.
RSSubdivisionVertices(subset) ==
  /\ fnPc \in {"graph", "frame"}
  /\ fnResult' = [subset |-> subset, vs |-> subdivisionVertices(fnArgs.G, subset)]
  /\ fnPc' = "listed"
  /\ UNCHANGED fnArgs
  /\ FNOthers

NextRS ==
  \/ \E subset \in SubsetsUpTo(Range(fnArgs.G.alive), MaxSubset) :
       RSSubdivisionVertices(SortedSeq(subset))
  \/ \E u \in VerticesOf(fnArgs.G) : RSRemove(u)
  \/ \E S \in SUBSET Range(fnArgs.G.alive) : RSSubgraph(S)
  \/ \E removesFirst \in BOOLEAN : RSRestore(removesFirst)

(***************************************************************************)
(* The numbering of the split vertices.  The two vectors subdivisionIdx    *)
(* and fromSubdivisionIdx belong to the driver and are handed to every     *)
(* cut-matching Solver it constructs, on the whole graph first and then,   *)
(* as the recursion goes down, on the subgraphs of graph and subdivGraph   *)
(* that belong to a subset xs of the original vertices.                    *)
(***************************************************************************)
\* Lines 44-51, the second vector: the i-th split vertex of the alive list
\* is written to entry i.  idx is subdivisionIdx as it was before the loop.
RECURSIVE numberInverse(_, _, _, _)
numberInverse(from, idx, us, count) ==
  IF us = <<>> THEN from
  ELSE IF idx[Head(us)] >= 0
       THEN numberInverse([from EXCEPT ![count] = Head(us)], idx, Tail(us), count + 1)
       ELSE numberInverse(from, idx, Tail(us), count)

\* The driver has built the two flow graphs; the vectors hold -1 for an
\* original vertex and 0 for a split vertex, and 0 in every entry of the
\* inverse.
IXInit ==
  /\ \E gr \in {g \in CMTestGraphs : g.n <= MaxVertices} :
       /\ fnArgs = [n |-> gr.n,
                    graph |-> constructFlowGraph(gr),
                    subdivGraph |-> constructSubdivisionFlowGraph(gr)]
       /\ fnResult = [subdivisionIdx |->
                        [u \in 0..(gr.n + Len(gr.es) - 1) |-> IF u < gr.n THEN -1 ELSE 0],
                      fromSubdivisionIdx |-> [i \in 0..(Len(gr.es) - 1) |-> 0],
                      numSplitNodes |-> 0]
  /\ fnPc = "driver"

\* Solver::Solver on the graphs as the driver has restricted them.
IXSolver ==
  /\ fnPc = "driver"
  /\ fnResult' =
       [subdivisionIdx |->
          numberSplit(fnResult.subdivisionIdx, fnArgs.subdivGraph.alive, 0),
        fromSubdivisionIdx |->
          numberInverse(fnResult.fromSubdivisionIdx, fnResult.subdivisionIdx,
                        fnArgs.subdivGraph.alive, 0),
        numSplitNodes |-> size(fnArgs.subdivGraph) - size(fnArgs.graph)]
  /\ fnPc' = "solver"
  /\ UNCHANGED fnArgs
  /\ FNOthers

\* The driver goes down to the subset xs: graph is restricted to xs and
\* subdivGraph to xs and the split vertices next to it.
IXSubgraph(xs) ==
  /\ fnPc \in {"solver", "returned"}
  /\ xs # <<>>
  /\ Len(fnArgs.graph.frames) < MaxFrames
  /\ fnArgs' = [fnArgs EXCEPT
       !.graph = subgraph(@, Range(xs)),
       !.subdivGraph = subgraph(@, Range(subdivisionVertices(fnArgs.subdivGraph, xs)))]
  /\ fnPc' = "driver"
  /\ UNCHANGED fnResult
  /\ FNOthers

\* The driver comes back from a subset.
IXRestore ==
  /\ fnPc \in {"solver", "returned"}
  /\ fnArgs.graph.frames # <<>>
  /\ fnArgs' = [fnArgs EXCEPT !.graph = restoreSubgraph(@),
                              !.subdivGraph = restoreSubgraph(@)]
  /\ fnPc' = "returned"
  /\ UNCHANGED fnResult
  /\ FNOthers

NextIX ==
  \/ IXSolver
  \/ \E S \in SUBSET Range(fnArgs.graph.alive) : IXSubgraph(SortedSeq(S))
  \/ IXRestore

(***************************************************************************)
(* One call of the driver on the whole graph: the cut-matching game with   *)
(* the engine's flow, the removal of the level cut, the matching, the      *)
(* classification, and the driver's switch on the result.  The graphs have *)
(* ten edges, so that log10 of the number of split vertices is 1 and the   *)
(* height h = max(round(1 / phi / log10(m')), ceil(log10(m'))) is          *)
(* round(1 / phi); phi is a fraction <<num, den>>.  The random unit vector *)
(* is the vector of its signs, which is all proposeCut's comparisons look  *)
(* at.  T is 1 and minBalance 0, so the game is one round.  levelCut is    *)
(* the specification's: the sparsest of the cuts by height.                *)
(***************************************************************************)
Phis == {<<3, 4>>, <<1, 2>>}

\* The flow vectors of the game: ten entries of -1 and 1, at most MaxBelow
\* of them -1.
MaxBelow == 4

GameFlows ==
  {flow \in [1..10 -> {-1, 1}] :
     Cardinality({i \in 1..10 : flow[i] = -1}) <= MaxBelow}

\* The complete graph on five vertices, and the graph of ten edges above.
GameGraphs ==
  { [n |-> 5, es |-> << <<0, 1>>, <<0, 2>>, <<0, 3>>, <<0, 4>>, <<1, 2>>,
                        <<1, 3>>, <<1, 4>>, <<2, 3>>, <<2, 4>>, <<3, 4>> >>] }
    \cup {gr \in CMTestGraphs : Len(gr.es) = 10}

\* The edges of gr between S and the other vertices, and the sum of the
\* degrees of S.
cutSize(gr, S) ==
  Cardinality({i \in 1..Len(gr.es) : (gr.es[i][1] \in S) # (gr.es[i][2] \in S)})

volumeOf(gr, S) ==
  Cardinality({i \in 1..Len(gr.es) : gr.es[i][1] \in S})
    + Cardinality({i \in 1..Len(gr.es) : gr.es[i][2] \in S})

\* gr is a phi-expander: every cut has at least phi times the smaller of
\* the two volumes as edges.
isExpander(gr, phi) ==
  \A S \in SUBSET (0..(gr.n - 1)) :
    (S # {} /\ S # 0..(gr.n - 1)) =>
      cutSize(gr, S) * phi[2]
        >= phi[1] * Min2(volumeOf(gr, S), volumeOf(gr, (0..(gr.n - 1)) \ S))

\* round(a / b) and ceil(a / b) for positive a, b.
roundDiv(a, b) == (2 * a + b) \div (2 * b)

ceilDiv(a, b) == (a + b - 1) \div b

\* compute, lines 266-267, for ten split vertices.
heightOf(phi) == Max2(roundDiv(phi[2], phi[1]), 1)

\* UnitFlow::compute, lines 36-70: one turn of the queue loop.
computeStep(F, queue, cap) ==
  IF isDiscard(F, queue) THEN [F |-> F, queue |-> pop(queue)]
  ELSE LET e == currentEdge(F, queue)
       IN IF isPush(F, queue)
          THEN LET F1 == pushFlow(F, e, pushDelta(F, e))
               IN [F |-> F1, queue |-> pushQueue(F1, queue, e, cap)]
          ELSE IF isRelabel(F, queue)
          THEN LET F1 == relabelFlow(F, e)
               IN [F |-> F1, queue |-> relabelQueue(F1, queue, e, cap)]
          ELSE [F |-> advanceFlow(F, e), queue |-> queue]

\* UnitFlow::compute, lines 35-71: the queue loop run to its end.
RECURSIVE computeLoop(_, _, _)
computeLoop(F, queue, cap) ==
  IF queue = EmptyBag THEN F
  ELSE LET st == computeStep(F, queue, cap)
       IN computeLoop(st.F, st.queue, cap)

\* UnitFlow::compute(maxHeight): the flow it leaves and the list it returns.
unitFlowCompute(F, maxHeight) ==
  LET F1 == computeLoop(F, computeQueue(F), computeMaxH(F, maxHeight))
  IN [F |-> F1, hasExcess |-> excessList(F1, 0)]

RECURSIVE addSources(_, _)
addSources(F, us) ==
  IF us = <<>> THEN F ELSE addSources(addSource(F, Head(us), 1), Tail(us))

RECURSIVE addSinks(_, _)
addSinks(F, us) ==
  IF us = <<>> THEN F ELSE addSinks(addSink(F, Head(us), 1), Tail(us))

\* The level sets: the alive vertices at height t or above.
levelSet(F, t) == {u \in Range(F.alive) : F.height[u] >= t}

\* The sum of the degrees of S, and the capacity of the edges that leave S.
levelVolume(F, S) ==
  LET d == [u \in S |-> degree(F, u)] IN SumOver(d, S)

levelBoundary(F, S) ==
  LET out(u) == [i \in 1..degree(F, u) |->
                   IF F.g[u][i].to \in S THEN 0 ELSE F.g[u][i].capacity]
      c == [u \in S |-> SumOver(out(u), DOMAIN out(u))]
  IN SumOver(c, S)

levelMinVolume(F, t) ==
  Min2(levelVolume(F, levelSet(F, t)),
       levelVolume(F, Range(F.alive) \ levelSet(F, t)))

\* The sets levelCut(h) can return: among the level sets of the heights
\* 1..h with vertices on both sides, those of the least ratio of boundary
\* capacity to the smaller volume; a tie leaves both.
levelCuts(F, h) ==
  LET heights == {t \in 1..h : levelMinVolume(F, t) > 0}
      sparser(a, b) ==
        levelBoundary(F, levelSet(F, a)) * levelMinVolume(F, b)
          <= levelBoundary(F, levelSet(F, b)) * levelMinVolume(F, a)
  IN {levelSet(F, t) :
        t \in {a \in heights : \A b \in heights : sparser(a, b)}}

\* The flow graph as an operation on the subset graph sees it: the
\* half-edges up to the watermarks.
visiblePart(F) ==
  [F EXCEPT !.g = [u \in DOMAIN @ |-> SubSeq(@[u], 1, F.degree[u])]]

\* Lines 289-295: the sources left are those outside the level cut.
sourcesLeft(axLeft, cut) == SelectSeq(axLeft, LAMBDA u : u \notin cut)

\* The driver builds the flow graphs, the Solver numbers the split vertices
\* and sets the capacities, and compute starts (lines 230-239).
GMInit ==
  /\ \E gr \in GameGraphs, phi \in Phis, T \in {1} :
       LET graph == constructFlowGraph(gr)
           all == constructSubdivisionFlowGraph(gr)
           n == gr.n
           subdivGraph ==
             [absorbed    |-> [u \in VerticesOf(all) |-> 0],
              sink        |-> [u \in VerticesOf(all) |-> 0],
              height      |-> [u \in VerticesOf(all) |-> 0],
              nextEdgeIdx |-> [u \in VerticesOf(all) |-> 0]]
               @@ setCapacities(all, Range(graph.alive), ceilDiv(phi[2], phi[1] * T))
       IN /\ fnArgs = [gr |-> gr, phi |-> phi, T |-> T,
                       numSplitNodes |-> size(all) - size(graph),
                       subdivisionIdx |->
                         numberSplit([u \in VerticesOf(all) |-> IF u < n THEN -1 ELSE 0],
                                     all.alive, 0),
                       lowerVolumeBalance |->
                         lowerVolumeBalanceOf(size(all) - size(graph), T)]
          /\ fnResult = [graph |-> graph, subdivGraph |-> subdivGraph,
                         iterations |-> 0, axLeft |-> <<>>, axRight |-> <<>>,
                         hasExcess |-> <<>>, matches |-> <<>>,
                         type |-> "", partition |-> Partitioned(n)]
  /\ fnPc = "loop"

\* A round up to the demands, lines 245-264: the cut for the flow vector,
\* reset, one unit of source per vertex of axLeft and of sink per vertex of
\* axRight.
GMCut(flow, balancedCutStrategy) ==
  /\ fnPc = "loop"
  /\ loopCondition(fnResult.iterations, fnArgs.T,
                   removedVolume(fnResult.subdivGraph), fnArgs.lowerVolumeBalance)
  /\ LET cut == proposeCut([alive |-> fnResult.subdivGraph.alive,
                            graphSize |-> size(fnResult.graph),
                            subdivisionIdx |-> fnArgs.subdivisionIdx,
                            flow |-> flow], balancedCutStrategy)
     IN fnResult' = [fnResult EXCEPT
          !.subdivGraph = addSinks(addSources(reset(@), cut.axLeft), cut.axRight),
          !.hasExcess = <<>>,
          !.axLeft = cut.axLeft,
          !.axRight = cut.axRight,
          !.matches = <<>>]
  /\ fnPc' = "cut"
  /\ UNCHANGED fnArgs
  /\ FNOthers

\* The flow of the round, lines 266-270: compute(h).
GMFlow ==
  /\ fnPc = "cut"
  /\ LET r == unitFlowCompute(fnResult.subdivGraph, heightOf(fnArgs.phi))
     IN fnResult' = [fnResult EXCEPT !.subdivGraph = r.F,
                                     !.hasExcess = r.hasExcess]
  /\ fnPc' = "flowed"
  /\ UNCHANGED fnArgs
  /\ FNOthers

\* The rest of the round, lines 272-360: the level cut is removed, then the
\* vertices left with degree 0, and the sources left are matched.
GMRemove(levelCut) ==
  /\ fnPc = "flowed"
  /\ LET graphs == removeFromBoth([graph |-> fnResult.graph,
                                   subdivGraph |-> fnResult.subdivGraph],
                                  fnArgs.subdivisionIdx, SortedSeq(levelCut))
         zero == removeFromBoth(graphs, fnArgs.subdivisionIdx,
                                zeroDegrees(graphs.subdivGraph))
         axLeft == sourcesLeft(fnResult.axLeft, levelCut)
         axRight == SelectSeq(fnResult.axRight, LAMBDA u : u \notin levelCut)
         m == matching(visiblePart(zero.subdivGraph), axLeft)
     IN fnResult' = [fnResult EXCEPT !.graph = zero.graph,
                                     !.subdivGraph = zero.subdivGraph,
                                     !.axLeft = axLeft,
                                     !.axRight = axRight,
                                     !.matches = m.matches,
                                     !.iterations = @ + 1]
  /\ fnPc' = "loop"
  /\ UNCHANGED fnArgs
  /\ FNOthers

\* The loop is left and the result classified, lines 376-387.
GMFinish ==
  /\ fnPc = "loop"
  /\ ~loopCondition(fnResult.iterations, fnArgs.T,
                    removedVolume(fnResult.subdivGraph), fnArgs.lowerVolumeBalance)
  /\ LET S == size(fnResult.graph)
         R == removedSize(fnResult.graph)
         type == classify(S, R, removedVolume(fnResult.subdivGraph),
                          fnArgs.lowerVolumeBalance)
     IN fnResult' = [fnResult EXCEPT
          !.type = type,
          !.graph = IF type = "Expander" /\ R # 0 THEN restoreRemoves(@) ELSE @]
  /\ fnPc' = "classified"
  /\ UNCHANGED fnArgs
  /\ FNOthers

\* The driver's switch on the result, with a the alive and r the removed
\* vertices of graph; trimmed is what the trimming removes from a.  The
\* calls on a and r that follow give no id back.
GMDriver(trimmed) ==
  /\ fnPc = "classified"
  /\ LET a == fnResult.graph.alive
         xs == SortedSeq(VerticesOf(fnResult.graph))
         r == RemovedList(fnResult.graph) \o
                (IF fnResult.type = "NearExpander" THEN SortedSeq(trimmed) ELSE <<>>)
     IN /\ trimmed \subseteq Range(a)
        /\ fnResult.type # "NearExpander" => trimmed = {}
        /\ fnResult' = [fnResult EXCEPT !.partition =
             IF fnResult.type = "Balanced" THEN newPartition(@, a)
             ELSE IF fnResult.type = "NearExpander" /\ recurseOnR(r, xs)
                  THEN newPartition(@, r)
                  ELSE @]
  /\ fnPc' = "decomposed"
  /\ UNCHANGED fnArgs
  /\ FNOthers

NextGM ==
  \/ \E flow \in GameFlows, balancedCutStrategy \in BOOLEAN :
       GMCut(flow, balancedCutStrategy)
  \/ GMFlow
  \/ \E levelCut \in (IF fnResult.hasExcess = <<>> THEN {{}}
                      ELSE levelCuts(fnResult.subdivGraph, heightOf(fnArgs.phi))) :
       GMRemove(levelCut)
  \/ GMFinish
  \/ \E trimmed \in SUBSET Range(fnResult.graph.alive) : GMDriver(trimmed)

(***************************************************************************)
(* Solver::projectFlow.  An entry of the vector is a double in the code;   *)
(* here it is the integer number of units of 2^-MaxPairs it holds, so that *)
(* the MaxPairs halvings a run can make are all exact.  A pair is <<i, j>> *)
(* with indices from 0.                                                    *)
(***************************************************************************)
\* Lines 68-69 with the second entry left as it was.
averagePairOneSided(start, pair) ==
  [start EXCEPT ![pair[1] + 1] = (start[pair[1] + 1] + start[pair[2] + 1]) \div 2]

\* Lines 68-69 with the second entry averaged again instead of copied.
averagePairTwice(start, pair) ==
  LET first == [start EXCEPT ![pair[1] + 1] = (start[pair[1] + 1] + start[pair[2] + 1]) \div 2]
  IN [first EXCEPT ![pair[2] + 1] = (first[pair[1] + 1] + start[pair[2] + 1]) \div 2]

\* Lines 68-69: start[i] = 0.5 * (start[i] + start[j]); start[j] = start[i].
averagePair(start, pair) ==
  LET first == [start EXCEPT ![pair[1] + 1] = (start[pair[1] + 1] + start[pair[2] + 1]) \div 2]
  IN [first EXCEPT ![pair[2] + 1] = first[pair[1] + 1]]

\* Line 65: the pairs of one round, in their order.
RECURSIVE projectRound(_, _)
projectRound(round, start) ==
  IF round = <<>> THEN start
  ELSE projectRound(Tail(round), averagePair(start, Head(round)))

\* Lines 62-72: the rounds in their order.
RECURSIVE projectFlow(_, _)
projectFlow(rounds, start) ==
  IF rounds = <<>> THEN start
  ELSE projectFlow(Tail(rounds), projectRound(Head(rounds), start))

\* The entries of a starting vector, in units of 1; 1 stands for 0.25 in
\* the vectors of the unit tests.
StartValues == {0, 1, 2}

unit == 2 ^ MaxPairs

PFInit ==
  /\ \E xs \in [1..VectorLen -> StartValues] :
       fnArgs = [start |-> [i \in 1..VectorLen |-> xs[i] * unit], rounds |-> <<>>]
  /\ fnResult = <<>>
  /\ fnPc = "args"

pairCount(rounds) == SumSeq(rounds, Len)

PFNewRound ==
  /\ fnPc = "args"
  /\ Len(fnArgs.rounds) < MaxPairs
  /\ fnArgs' = [fnArgs EXCEPT !.rounds = Append(@, <<>>)]
  /\ UNCHANGED <<fnResult, fnPc>>
  /\ FNOthers

\* One more pair in the last round.
PFAddPair(i, j) ==
  /\ fnPc = "args"
  /\ fnArgs.rounds # <<>>
  /\ pairCount(fnArgs.rounds) < MaxPairs
  /\ fnArgs' = [fnArgs EXCEPT !.rounds[Len(fnArgs.rounds)] = Append(@, <<i, j>>)]
  /\ UNCHANGED <<fnResult, fnPc>>
  /\ FNOthers

PFProject ==
  /\ fnPc = "args"
  /\ fnResult' = projectFlow(fnArgs.rounds, fnArgs.start)
  /\ fnPc' = "projected"
  /\ UNCHANGED fnArgs
  /\ FNOthers

NextPF ==
  \/ PFNewRound
  \/ \E i, j \in 0..(VectorLen - 1) : i # j /\ PFAddPair(i, j)
  \/ PFProject

(***************************************************************************)
(* Specifications, one per component.                                      *)
(***************************************************************************)
InitSG == SGInit /\ UFOff /\ CMOff /\ EDOff /\ FNOff

SpecSG == InitSG /\ [][NextSG]_vars

InitUF == UFInit /\ SGOff /\ CMOff /\ EDOff /\ FNOff

InitCM == CMInit /\ SGOff /\ UFOff /\ EDOff /\ FNOff

\* The solver; compute goes on until it returns.
SpecCM == InitCM /\ [][NextCM]_vars /\ WF_vars(CMStep)

InitED == EDInit /\ SGOff /\ UFOff /\ CMOff /\ FNOff

SpecED == InitED /\ [][NextED]_vars

\* The driver is a sequential program: as long as a call is left to run or
\* the result is still to be read, it takes its next step.
SpecEDFair == InitED /\ [][NextED]_vars /\ WF_vars(NextED)

InitDet == DetInit /\ SGOff /\ UFOff /\ CMOff /\ EDOff

SpecDet == InitDet /\ [][NextDet]_vars

InitRS == RSInit /\ SGOff /\ UFOff /\ CMOff /\ EDOff

SpecRS == InitRS /\ [][NextRS]_vars

InitIX == IXInit /\ SGOff /\ UFOff /\ CMOff /\ EDOff

SpecIX == InitIX /\ [][NextIX]_vars

InitGM == GMInit /\ SGOff /\ UFOff /\ CMOff /\ EDOff

SpecGM == InitGM /\ [][NextGM]_vars

InitPF == PFInit /\ SGOff /\ UFOff /\ CMOff /\ EDOff

SpecPF == InitPF /\ [][NextPF]_vars

InitPC == PCInit /\ SGOff /\ UFOff /\ CMOff /\ EDOff

SpecPC == InitPC /\ [][NextPC]_vars

\* The engine; compute's loop runs on once it has started.
SpecUF == InitUF /\ [][NextUF]_vars /\ WF_vars(UFStep)

(***************************************************************************)
(* Properties of the subset graph.                                         *)
(***************************************************************************)
IsAlive(G, u) == u \in Range(G.alive)

\* The half-edges list[1..d] as a bag of (from, to) pairs.
EdgeBag(list, d) ==
  LET pairs == {<<list[i].from, list[i].to>> : i \in 1..d}
  IN [p \in pairs |-> Cardinality({i \in 1..d : <<list[i].from, list[i].to>> = p})]

\* Same edges in every adjacency list (all of it, and its visible part), same
\* degrees, same alive and removed vertices.
SameGraph(G, H) ==
  /\ \A u \in VerticesOf(G) :
       /\ EdgeBag(G.g[u], Len(G.g[u])) = EdgeBag(H.g[u], Len(H.g[u]))
       /\ G.degree[u] = H.degree[u]
       /\ EdgeBag(G.g[u], G.degree[u]) = EdgeBag(H.g[u], H.degree[u])
  /\ Range(G.alive) = Range(H.alive)
  /\ Range(G.removed) = Range(H.removed)

\* C2 (reversibility): once every remove and every subgraph push has been
\* undone by its restoreRemoves / restoreSubgraph, last first, the graph is
\* the one construction left: the same edges in every adjacency list, the
\* same degree for every vertex, the same alive and removed sets.
C2_Reversibility ==
  (sg.frames = <<>> /\ sg.removed = <<>>) => SameGraph(sg, sg0)

\* C2's case: everything is undone, and the adjacency lists still show, by
\* their changed order, that vertices were hidden and brought back.
C2_Witness ==
  /\ sgPhase = "run"
  /\ sg.frames = <<>>
  /\ sg.removed = <<>>
  /\ sg.g # sg0.g

\* C3 (edge symmetry): in every reachable state every half-edge e = g[u][i]
\* starts at u, and its twin g[e.to][e.revIdx] leads from e.to back to u and
\* holds i as its own revIdx.
C3_EdgeSymmetry ==
  \A u \in VerticesOf(sg) : \A i \in 1..Len(sg.g[u]) :
    LET e == sg.g[u][i]
    IN /\ e.from = u
       /\ e.revIdx + 1 \in 1..Len(sg.g[e.to])
       /\ LET twin == reverse(sg.g, e)
          IN /\ twin.from = e.to
             /\ twin.to = u
             /\ twin.revIdx = i - 1

\* C3's case: half-edges have been swapped inside an adjacency list by a
\* remove or a subgraph push that is still in force.
C3_Witness ==
  /\ sg.removed # <<>>
  /\ sg.frames # <<>>
  /\ \E u \in VerticesOf(sg) : \E i \in 1..Len(sg.g[u]) :
       sg.g[u][i].to # sg0.g[u][i].to

\* C4 (degree watermark): for every alive vertex u the half-edges before the
\* watermark degree(u) lead to alive vertices, and degree(u) is the number of
\* u's half-edges that lead to alive vertices.
C4_DegreeWatermark ==
  \A u \in Range(sg.alive) :
    /\ sg.degree[u] \in 0..Len(sg.g[u])
    /\ \A i \in 1..sg.degree[u] : IsAlive(sg, sg.g[u][i].to)
    /\ sg.degree[u] = Cardinality({i \in 1..Len(sg.g[u]) : IsAlive(sg, sg.g[u][i].to)})

\* C4's case: a vertex with two neighbours has been removed, and an alive
\* neighbour of it now has fewer visible half-edges than half-edges.
C4_Witness ==
  \E v \in Range(sg.removed) : \E u \in Range(sg.alive) :
    /\ Len(sg.g[v]) >= 2
    /\ \E i \in 1..Len(sg.g[u]) : sg.g[u][i].to = v
    /\ sg.degree[u] < Len(sg.g[u])
    /\ sg.degree[u] > 0


\* The vertices excluded by the frames of the subgraph stack.
excludedNow(G) == UNION {Range(G.frames[i].excluded) : i \in 1..Len(G.frames)}

\* x occurs exactly once in the list.
OnceIn(list, x) == Cardinality({i \in 1..Len(list) : list[i] = x}) = 1

\* Every vertex is in exactly one of the alive list, the removed list and the
\* excluded sets of the frames, once, and its status says which.
StatusPartition(G) ==
  \A u \in VerticesOf(G) :
    /\ G.status[u] \in {"alive", "removed", "excluded"}
    /\ G.status[u] = "alive" <=> u \in Range(G.alive)
    /\ G.status[u] = "removed" <=> u \in Range(G.removed)
    /\ G.status[u] = "excluded" <=> u \in excludedNow(G)
    /\ u \in Range(G.alive) => OnceIn(G.alive, u)
    /\ u \in Range(G.removed) => OnceIn(G.removed, u)

\* A step that makes the removed list longer is the remove of one alive
\* vertex: it goes from the alive list to the end of the removed list, and
\* no other vertex changes its list or its status.
RemoveMovesOne ==
  Len(sg'.removed) > Len(sg.removed)
    => \E u \in Range(sg.alive) :
         /\ sg'.removed = Append(sg.removed, u)
         /\ sg'.alive = Without(sg.alive, {u})
         /\ sg'.status = [sg.status EXCEPT ![u] = "removed"]
         /\ sg'.frames = sg.frames

\* C14: in every reachable state of the subset graph each vertex has exactly
\* one of the statuses alive, removed and excluded, the alive list and the
\* removed list are disjoint, and remove(u) moves u from the alive list to
\* the removed list and changes the status of no other vertex.
C14_OneStatus ==
  /\ [](StatusPartition(sg) /\ Range(sg.alive) \cap Range(sg.removed) = {})
  /\ [][RemoveMovesOne]_vars

\* C14's case: all three statuses occur at once.
C14_Witness ==
  /\ sg.removed # <<>>
  /\ excludedNow(sg) # {}
  /\ sg.alive # <<>>
  /\ StatusPartition(sg)

\* The subset the last subgraph call was given: what its frame retained.
lastSubset(G) ==
  LET f == G.frames[Len(G.frames)] IN Range(f.alive) \ Range(f.excluded)

\* The half-edges of u, in the graph as constructed, that lead into S.
edgesInto(u, S) == {i \in 1..Len(sg0.g[u]) : sg0.g[u][i].to \in S}

\* C15: right after subgraph(S), S a set of alive vertices, the alive set is
\* S and size() is |S| (0, with volume 0, for the empty S), the degree of a
\* vertex of S is the number of its edges to vertices of S, and edgeCount()
\* is the number of edges with both ends in S; the same for a subgraph call
\* inside an earlier frame.
C15_SubgraphExact ==
  (sg.frames # <<>> /\ removedSize(sg) = 0)
    => LET S == lastSubset(sg)
       IN /\ Range(sg.alive) = S
          /\ size(sg) = Cardinality(S)
          /\ S = {} => (size(sg) = 0 /\ volume(sg) = 0)
          /\ \A u \in S : degree(sg, u) = Cardinality(edgesInto(u, S))
          /\ 2 * edgeCount(sg) = SumOver([u \in S |-> Cardinality(edgesInto(u, S))], S)

\* C15's case: a subgraph call inside an earlier frame, on a subset with an
\* edge inside it and an edge leaving it.
C15_Witness ==
  /\ Len(sg.frames) = 2
  /\ removedSize(sg) = 0
  /\ edgeCount(sg) > 0
  /\ \E u \in Range(sg.alive) : 0 < degree(sg, u) /\ degree(sg, u) < Len(sg.g[u])
  /\ sg.frames[2].excluded # <<>>

\* G is the graph H: the same edges in every adjacency list and before every
\* watermark, the same alive list, removed list, statuses and frames.
SameState(G, H) ==
  /\ SameGraph(G, H)
  /\ G.alive = H.alive
  /\ G.removed = H.removed
  /\ G.status = H.status
  /\ G.frames = H.frames

C20_SubdivisionVertices ==
  fnPc = "listed"
    => LET G == fnArgs.G
           subset == Range(fnResult.subset)
           vs == fnResult.vs
       IN /\ \A i, j \in 1..Len(vs) : i # j => vs[i] # vs[j]
          /\ Range(vs) = subset \cup {v \in VerticesOf(G) :
                                        /\ G.status[v] = "alive"
                                        /\ \E u \in subset : v \in neighboursOf(G, u)}
          /\ \A v \in Range(vs) : G.status[v] = "alive"

\* C20's case: a frame excludes a neighbour of the subset, another neighbour
\* is returned, and two vertices of the subset have a common neighbour.
C20_Witness ==
  /\ fnPc = "listed"
  /\ Len(fnResult.subset) = 2
  /\ fnArgs.G.frames # <<>>
  /\ \E u \in Range(fnResult.subset) : \E v \in neighboursOf(fnArgs.G, u) :
       fnArgs.G.status[v] = "excluded"
  /\ \E v \in Range(fnResult.vs) \ Range(fnResult.subset) :
       \A u \in Range(fnResult.subset) : v \in neighboursOf(fnArgs.G, u)

(***************************************************************************)
(* Properties of the unit-flow engine.                                     *)
(***************************************************************************)
\* The half-edges of F, as (vertex, position) pairs.
HalfEdges(F) == UNION {{<<u, i>> : i \in 1..Len(F.g[u])} : u \in VerticesOf(F)}

\* C5: matching called on the flow compute has left, with distinct sources,
\* returns pairs whose first coordinates are pairwise distinct and whose
\* second coordinates are pairwise distinct.
C5_MatchingUnique ==
  (ufLast.op = "matching" /\ ufLast.prev = "compute") =>
    \A i, j \in 1..Len(ufRet.matches) :
      i # j => /\ ufRet.matches[i][1] # ufRet.matches[j][1]
               /\ ufRet.matches[i][2] # ufRet.matches[j][2]

\* C6: after reset() every half-edge has flow 0, every vertex has absorbed
\* 0, sink 0 and nextEdgeIdx 0, and the capacities and the topology are
\* those from before the call.
C6_ResetZeroes ==
  ufLast.op = "reset" =>
    /\ \A p \in HalfEdges(uf) : uf.g[p[1]][p[2]].flow = 0
    /\ \A u \in VerticesOf(uf) :
         uf.absorbed[u] = 0 /\ uf.sink[u] = 0 /\ uf.nextEdgeIdx[u] = 0
    /\ HalfEdges(uf) = HalfEdges(ufLast.before)
    /\ \A p \in HalfEdges(uf) :
         LET e == uf.g[p[1]][p[2]]
             b == ufLast.before.g[p[1]][p[2]]
         IN e.capacity = b.capacity /\ e.from = b.from /\ e.to = b.to
            /\ e.revIdx = b.revIdx

\* C7: when no engine operation is in progress, every half-edge e has
\* flow(e) + flow(reverse(e)) = 0 and flow(e) <= capacity(e), and every
\* vertex has absorbed >= 0 and sink >= 0.
C7_IdleInvariants ==
  UFIdle =>
    /\ \A p \in HalfEdges(uf) :
         LET e == uf.g[p[1]][p[2]]
         IN e.flow + reverse(uf.g, e).flow = 0 /\ e.flow <= e.capacity
    /\ \A u \in VerticesOf(uf) : uf.absorbed[u] >= 0 /\ uf.sink[u] >= 0

PushAsserts ==
  UFPush => /\ excess(uf, currentEdge(uf, q).to) = 0
            /\ excess(uf', currentEdge(uf, q).from) >= 0

\* C22: whenever compute pushes over a half-edge (u, v), v has excess 0
\* immediately before the push and u has excess >= 0 immediately after it.
C22_PushAsserts == [][PushAsserts]_vars

\* The compute in progress started with every height 0.
StartedAtZero ==
  /\ ufPc = "compute"
  /\ \A u \in VerticesOf(ufLast.before) : ufLast.before.height[u] = 0

\* Every half-edge with residual > 0 goes down by at most one level.
ValidLabelling(F) ==
  \A p \in HalfEdges(F) :
    LET e == F.g[p[1]][p[2]]
    IN residual(e) > 0 => F.height[e.from] <= F.height[e.to] + 1

\* A step of the loop lowers no height, and a relabel raises the height of
\* the vertex on top of the queue by exactly 1 and no other height.
HeightsStep ==
  /\ \A u \in VerticesOf(uf) : uf'.height[u] >= uf.height[u]
  /\ UFRelabel =>
       \A u \in VerticesOf(uf) :
         uf'.height[u] = uf.height[u] + (IF u = top(q)[2] THEN 1 ELSE 0)

\* C28: during a compute that started with every height 0, every half-edge
\* (u, v) with residual > 0 has height(u) <= height(v) + 1; heights never
\* decrease, and a relabel raises one height by exactly 1.
C28_ValidLabelling ==
  /\ [](StartedAtZero => ValidLabelling(uf))
  /\ [][HeightsStep]_vars

\* C28 happens: in a compute started at height 0 a vertex has been relabelled
\* twice, flow has been pushed, and a half-edge with residual goes down one
\* level.
C28_Witness ==
  /\ StartedAtZero
  /\ \E u \in VerticesOf(uf) : uf.height[u] >= 2
  /\ \E p \in HalfEdges(uf) :
       LET e == uf.g[p[1]][p[2]]
       IN e.flow > 0 /\ residual(reverse(uf.g, e)) > 0
          /\ uf.height[e.to] = uf.height[e.from] + 1

\* The vertices compute still has to work on: positive excess, height below
\* the cap.
Active(F) == {u \in VerticesOf(F) : excess(F, u) > 0 /\ F.height[u] < maxH}

InQueue == {a[2] : a \in BagToSet(q)}

\* C29 as stated: when compute returns, every vertex with positive excess has
\* height >= maxH or has no edges, and at every turn of the loop the queue
\* holds every vertex with positive excess and height < maxH.
C29_QueueHoldsActive ==
  /\ (ufPc = "idle" /\ ufLast.op = "compute") =>
       \A u \in VerticesOf(uf) :
         excess(uf, u) > 0 => (uf.height[u] >= maxH \/ uf.g[u] = <<>>)
  /\ ufPc = "compute" => Active(uf) \subseteq InQueue

\* C29, amended: the queue holds every vertex with positive excess, height
\* < maxH and at least one edge.
C29_QueueHoldsActiveWithEdges ==
  /\ (ufPc = "idle" /\ ufLast.op = "compute") =>
       \A u \in VerticesOf(uf) :
         excess(uf, u) > 0 => (uf.height[u] >= maxH \/ uf.g[u] = <<>>)
  /\ ufPc = "compute" =>
       {u \in Active(uf) : uf.g[u] # <<>>} \subseteq InQueue

\* C29 happens: compute has returned leaving one vertex with excess at the
\* cap and one with excess and no edges, below the cap.
C29_Witness ==
  /\ ufPc = "idle"
  /\ ufLast.op = "compute"
  /\ \E u, v \in VerticesOf(uf) :
       /\ excess(uf, u) > 0 /\ uf.g[u] # <<>> /\ uf.height[u] >= maxH
       /\ excess(uf, v) > 0 /\ uf.g[v] = <<>> /\ uf.height[v] < maxH

(***************************************************************************)
(* Properties of the cut-matching solver.                                  *)
(***************************************************************************)
Classified == cmPc = "done" /\ "S" \in DOMAIN cm

\* The removed volume v is at most max(m / (10 T), minBalance * volume0),
\* over the rationals.
WithinTargetBalance(v) ==
  \/ v * 10 * cm.T <= cm.numSplitNodes
  \/ v * cm.minBalance[2] <= cm.minBalance[1] * cm.volume0

C10_Rounds ==
  (cmPc \in {"loop", "done"}) =>
    /\ Len(cm.rounds) <= cm.T
    /\ \A i \in 1..Len(cm.rounds) : WithinTargetBalance(cm.rounds[i])
    /\ cmPc = "done" =>
         /\ cm.result.iterations = Len(cm.rounds)
         /\ 0 <= cm.result.iterations /\ cm.result.iterations <= cm.T
    /\ Classified =>
         (cm.result.iterations = cm.T \/ ~WithinTargetBalance(cm.volR))

\* C10: compute runs at most T rounds, starts a round only while the removed
\* volume is at most max(m / (10 T), minBalance * globalVolume), reports as
\* iterations the number of rounds it ran, and always returns.
C10_SelfTerminates == []C10_Rounds /\ ((cmPc = "loop") ~> (cmPc = "done"))

\* C10 happens: compute returned before round T because the removed volume
\* passed a positive target balance.
C10_Witness ==
  /\ Classified
  /\ cm.result.iterations >= 1
  /\ cm.result.iterations < cm.T
  /\ cm.targetVolumeBalance > 0

(***************************************************************************)
(* Properties of the decomposition driver.                                 *)
(***************************************************************************)

\* The places of vertex u in the lists of getPartition.
PlacesOf(u) ==
  {p \in UNION {{<<id, k>> : k \in 1..Len(edOut[id])} : id \in DOMAIN edOut} :
     edOut[p[1]][p[2]] = u}

\* C1: once the driver has finished, every vertex 0..n-1 is in exactly one
\* list of getPartition, at one place, and carries a partition id below
\* partitionCount.
C1_PartitionCovers ==
  edPc = "done" =>
    \A u \in DOMAIN edFlow.partition :
      /\ Cardinality(PlacesOf(u)) = 1
      /\ edFlow.partition[u] < edFlow.partitionCount

\* C1 happens: the driver has split the vertices into three clusters or more
\* and getPartition lists them.
C1_Witness ==
  /\ edPc = "done"
  /\ edFlow.partitionCount >= 3
  /\ \A id \in DOMAIN edOut : edOut[id] # <<>>

\* The calls a step of compute has made: what the step put on the stack in
\* place of the call that ran.
NewCalls == SubSeq(edStack', 1, Len(edStack') - Len(edStack) + 1)

\* Every call a step makes is on a non-empty proper subset of the caller's
\* xs, the calls of one step are on disjoint subsets, and an empty xs and an
\* expander make no call.
CallsShrink ==
  (edPc = "run" /\ edStack # <<>> /\ edPc' = "run") =>
    LET xs == Head(edStack).xs
    IN /\ \A i \in 1..Len(NewCalls) :
            /\ NewCalls[i].xs # <<>>
            /\ Range(NewCalls[i].xs) \subseteq Range(xs)
            /\ Len(NewCalls[i].xs) < Len(xs)
            /\ Cardinality(Range(NewCalls[i].xs)) = Len(NewCalls[i].xs)
       /\ \A i, j \in 1..Len(NewCalls) :
            i # j => Range(NewCalls[i].xs) \cap Range(NewCalls[j].xs) = {}
       /\ (xs = <<>> \/ EDExpander) => NewCalls = <<>>

\* No call is nested deeper than |V|, the outermost call not counted, nor
\* deeper than |V| - 1 on a graph with a vertex.
DepthBounded ==
  LET n == Cardinality(DOMAIN edFlow.partition)
  IN \A i \in 1..Len(edStack) :
       edStack[i].depth <= n /\ (n >= 1 => edStack[i].depth + 1 <= n)

\* C24: the recursion of the driver terminates: every recursive call of
\* compute is on a non-empty proper subset of the caller's xs, no call is
\* nested deeper than |V|, and whatever the cut-matching solver and the
\* trimming return, the driver comes to its end.
C24_RecursionTerminates ==
  /\ [][CallsShrink]_vars
  /\ []DepthBounded
  /\ <>(edPc = "done")

\* C24 happens: a call on a single vertex is nested |V| - 1 deep, |V| >= 3.
C24_Witness ==
  /\ edPc = "run"
  /\ edStack # <<>>
  /\ Cardinality(DOMAIN edFlow.partition) >= 3
  /\ Head(edStack).depth + 1 = Cardinality(DOMAIN edFlow.partition)
  /\ Len(Head(edStack).xs) = 1

\* C19: the subdivision graph of a graph with n vertices and m edges has the
\* vertices 0 .. n + m - 1; the split vertex n + i of the i-th edge added
\* (from 0) has two half-edges, to the two ends of that edge, so no two
\* edges share a split vertex; an original vertex is joined to split
\* vertices only; and subdivisionIdx[u] >= 0 exactly for the vertices u >= n.
C19_SubdivisionLayout ==
  cmPc \notin {"off", "new"}
    => LET n == cmIn.n
           m == Len(cmIn.es)
       IN /\ VerticesOf(cmSubdiv) = 0..(n + m - 1)
          /\ \A i \in 0..(m - 1) :
               /\ Len(cmSubdiv.g[n + i]) = 2
               /\ neighboursOf(cmSubdiv, n + i) = {cmIn.es[i + 1][1], cmIn.es[i + 1][2]}
          /\ \A u \in 0..(n - 1) :
               /\ \A v \in neighboursOf(cmSubdiv, u) : v >= n
               /\ Len(cmSubdiv.g[u])
                    = Cardinality({i \in 1..m : u \in {cmIn.es[i][1], cmIn.es[i][2]}})
          /\ "subdivisionIdx" \in DOMAIN cm
               => \A u \in VerticesOf(cmSubdiv) : cm.subdivisionIdx[u] >= 0 <=> u >= n

\* C19's case: the graph with four edges, its split vertices numbered, and a
\* round has moved half-edges behind watermarks since.
C19_Witness ==
  /\ cmPc = "loop"
  /\ cmIn.n = 4
  /\ Len(cmIn.es) = 4
  /\ "subdivisionIdx" \in DOMAIN cm
  /\ cm.subdivisionIdx[7] = 3
  /\ cmSubdiv.removed # <<>>
  /\ neighboursOf(cmSubdiv, 7) = {2, 3}

(***************************************************************************)
(* The cut player.                                                         *)
(***************************************************************************)
\* The number of alive split vertices proposeCut was called with.
aliveSplit == Len(fnArgs.alive) - fnArgs.graphSize

\* C11: whatever the flow vector over the alive split vertices (two or more
\* of them, as compute asks for before its first round) and whichever the
\* balancing strategy, the left side that proposeCut returns is non-empty.
C11_LeftNonEmpty ==
  (fnPc = "cut" /\ aliveSplit >= 2) => fnResult.axLeft # <<>>

\* C12: with balancedCutStrategy, proposeCut returns two sides of the same
\* length, whichever of its three cases the flow vector falls in.
C12_PerfectlyBalanced ==
  (fnPc = "cut" /\ fnResult.balancedCutStrategy)
    => Len(fnResult.axLeft) = Len(fnResult.axRight)

\* The flow vector was re-partitioned along mu, both sides were non-empty
\* and the right one had to be popped down to the left one.
C12_Witness ==
  /\ fnPc = "cut"
  /\ fnResult.balancedCutStrategy
  /\ fnResult.case = "mu"
  /\ fnResult.axLeft # <<>>
  /\ Len(fnResult.before.axRight) > Len(fnResult.before.axLeft) + 1

\* C25: without balancedCutStrategy, the cut proposeCut returns has
\* |axLeft| <= |axRight| and 8 |axLeft| <= m', m' the number of alive split
\* vertices, whatever the flow vector.
C25_LeftSmall ==
  (fnPc = "cut" /\ ~fnResult.balancedCutStrategy)
    => /\ Len(fnResult.axLeft) <= Len(fnResult.axRight)
       /\ 8 * Len(fnResult.axLeft) <= aliveSplit

\* C25 happens: the left side had more than an eighth of the alive split
\* vertices, was popped, and is not empty.
C25_Witness ==
  /\ fnPc = "cut"
  /\ ~fnResult.balancedCutStrategy
  /\ fnResult.axLeft # <<>>
  /\ Len(fnResult.before.axLeft) > Len(fnResult.axLeft)

\* C31: whatever the flow vector and the strategy, the two sides proposeCut
\* returns have no vertex in common, hold no vertex twice, and hold only
\* split vertices that are alive, so that lines 261-264 give no vertex both
\* a unit of source and a unit of sink.
C31_SidesDisjoint ==
  fnPc = "cut" =>
    /\ Range(fnResult.axLeft) \cap Range(fnResult.axRight) = {}
    /\ Cardinality(Range(fnResult.axLeft)) = Len(fnResult.axLeft)
    /\ Cardinality(Range(fnResult.axRight)) = Len(fnResult.axRight)
    /\ \A u \in Range(fnResult.axLeft) \cup Range(fnResult.axRight) :
         u \in Range(fnArgs.alive) /\ fnArgs.subdivisionIdx[u] >= 0

\* C31 happens: a split vertex was removed before the call, both sides of
\* the cut hold vertices, and the balancing step popped some.
C31_Witness ==
  /\ fnPc = "cut"
  /\ Len(fnArgs.flow) > aliveSplit
  /\ fnResult.axLeft # <<>>
  /\ fnResult.axRight # <<>>
  /\ Len(fnResult.axLeft) + Len(fnResult.axRight) < aliveSplit

\* C27: when the game ends with no alive original vertex (S = 0, R > 0),
\* compute returns Expander with every vertex it removed alive again: in
\* graph and in subdivGraph the removed list is empty.
C27_AllRestored ==
  (Classified /\ cm.S = 0 /\ cm.R > 0) =>
    /\ cm.result.type = "Expander"
    /\ removedSize(cmGraph) = 0
    /\ removedSize(cmSubdiv) = 0

\* After a round, an original vertex is removed in graph exactly when it is
\* removed in subdivGraph.
RemovedAlike ==
  \A u \in VerticesOf(cmGraph) :
    (cmGraph.status[u] = "removed") <=> (cmSubdiv.status[u] = "removed")

\* C30: after the removal step of every round, graph and subdivGraph have
\* removed the same original vertices, and every alive vertex of
\* subdivGraph has degree >= 1.
C30_RemovalStep ==
  (cmPc = "loop" /\ cm.iterations > 0) =>
    /\ RemovedAlike
    /\ \A u \in Range(cmSubdiv.alive) : degree(cmSubdiv, u) >= 1

\* C30 happens: one round has removed more vertices than its level cut
\* held, an original vertex among them, and vertices are left.
C30_Witness ==
  /\ cmPc = "loop"
  /\ cm.iterations = 1
  /\ removedSize(cmSubdiv) > MaxCut
  /\ removedSize(cmGraph) > 0
  /\ size(cmGraph) > 0

(***************************************************************************)
(* The numbering of the split vertices.                                    *)
(***************************************************************************)
\* What is asked of the numbering over the set U of split vertices: no two
\* vertices of U carry the same index, and fromSubdivisionIdx leads back
\* from the index of a vertex of U with index in [0, m) to the vertex.
NumberedOn(U) ==
  /\ \A u \in 0..(fnArgs.n - 1) : fnResult.subdivisionIdx[u] = -1
  /\ \A u, v \in U :
       u # v => fnResult.subdivisionIdx[u] # fnResult.subdivisionIdx[v]
  /\ \A u \in U :
       fnResult.subdivisionIdx[u] \in 0..(fnResult.numSplitNodes - 1)
         => fnResult.fromSubdivisionIdx[fnResult.subdivisionIdx[u]] = u

\* The split vertices of the subdivision graph, and those in the subset the
\* Solver was constructed on.
splitVertices == {u \in VerticesOf(fnArgs.subdivGraph) : u >= fnArgs.n}

aliveSplitVertices == {u \in Range(fnArgs.subdivGraph.alive) : u >= fnArgs.n}

\* C26 as stated: after every construction of a Solver, also on a restricted
\* subset, original vertices map to -1, no two split vertices of the
\* subdivision graph carry the same index, and fromSubdivisionIdx is the
\* inverse on every split vertex with index in [0, m).
C26_Numbering == fnPc = "solver" => NumberedOn(splitVertices)

\* C26, amended: the same over the split vertices of the subset the Solver
\* was constructed on, each of which has its index in [0, m).
C26_NumberingOfSubset ==
  fnPc = "solver" =>
    /\ NumberedOn(aliveSplitVertices)
    /\ \A u \in aliveSplitVertices :
         fnResult.subdivisionIdx[u] \in 0..(fnResult.numSplitNodes - 1)

\* C26 happens: a Solver was constructed on a proper subset with two split
\* vertices or more, after one on the whole graph.
C26_Witness ==
  /\ fnPc = "solver"
  /\ fnArgs.subdivGraph.frames # <<>>
  /\ Cardinality(aliveSplitVertices) >= 2
  /\ aliveSplitVertices # splitVertices

(***************************************************************************)
(* Determinism.                                                            *)
(***************************************************************************)
\* What the steps after the removals read of a graph: its alive list and,
\* per alive vertex, its half-edges up to the watermark, in their order.
alivePart(G) ==
  [alive |-> G.alive, g |-> [u \in Range(G.alive) |-> SubSeq(G.g[u], 1, G.degree[u])]]

\* C13: two runs on the same graph that get the same level cuts make the
\* same remove calls in the same order and leave, after each round, the
\* same alive lists and the same lists of visible half-edges
\* in graph and subdivGraph, so that the flow, the matching and the next cut
\* are computed from the same state.
C13_SameRun ==
  fnPc = "runs"
    => /\ fnResult[1].removals = fnResult[2].removals
       /\ alivePart(fnResult[1].graph) = alivePart(fnResult[2].graph)
       /\ alivePart(fnResult[1].subdivGraph) = alivePart(fnResult[2].subdivGraph)

(***************************************************************************)
(* Properties of projectFlow.                                              *)
(***************************************************************************)
\* All pairs of all rounds, in the order of the rounds.
RECURSIVE allPairs(_)
allPairs(rounds) ==
  IF rounds = <<>> THEN <<>> ELSE Head(rounds) \o allPairs(Tail(rounds))

\* x with the entries of the pair both replaced by their mean, the others kept.
meanAt(x, pair) ==
  [k \in DOMAIN x |->
     IF k - 1 \in {pair[1], pair[2]} THEN (x[pair[1] + 1] + x[pair[2] + 1]) \div 2 ELSE x[k]]

\* x after pairs[1], ..., pairs[count], one after the other.
RECURSIVE meansUpTo(_, _, _)
meansUpTo(x, pairs, count) ==
  IF count = 0 THEN x ELSE meanAt(meansUpTo(x, pairs, count - 1), pairs[count])

\* C17: projectFlow(rounds, xs) is xs after the pairs of the rounds, taken in
\* the given order, have each replaced both of their entries by the mean of
\* the two and left every other entry alone; with no rounds it is xs.
C17_ProjectFlow ==
  fnPc = "projected"
    => /\ fnResult = meansUpTo(fnArgs.start, allPairs(fnArgs.rounds),
                               Len(allPairs(fnArgs.rounds)))
       /\ fnArgs.rounds = <<>> => fnResult = fnArgs.start

\* The third unit test: xs = [0.0, 0.25, 0.5, 0.25], rounds [(0,3)] and
\* [(0,2)] give [0.3125, 0.25, 0.3125, 0.125].
C17_Witness ==
  /\ fnPc = "projected"
  /\ fnArgs.start = <<0, unit, 2 * unit, unit>>
  /\ fnArgs.rounds = << << <<0, 3>> >>, << <<0, 2>> >> >>
  /\ 4 * fnResult[1] = 5 * unit
  /\ fnResult[2] = unit
  /\ 4 * fnResult[3] = 5 * unit
  /\ 2 * fnResult[4] = unit

sumOf(x) == SumSeq(x, LAMBDA v : v)

\* Len(x)^2 times the potential of x, the sum of (x[i] - mean(x))^2.
potential(x) ==
  SumSeq(x, LAMBDA v : (Len(x) * v - sumOf(x)) * (Len(x) * v - sumOf(x)))

\* C18: for rounds of one pair each and any starting vector, projectFlow
\* keeps the sum of the entries and does not increase the potential.
C18_SumAndPotential ==
  (fnPc = "projected" /\ \A r \in 1..Len(fnArgs.rounds) : Len(fnArgs.rounds[r]) = 1)
    => /\ sumOf(fnResult) = sumOf(fnArgs.start)
       /\ potential(fnResult) <= potential(fnArgs.start)

\* C18's case: two rounds of one pair each, and the potential went down.
C18_Witness ==
  /\ fnPc = "projected"
  /\ Len(fnArgs.rounds) = 2
  /\ \A r \in 1..2 : Len(fnArgs.rounds[r]) = 1
  /\ sumOf(fnResult) = sumOf(fnArgs.start)
  /\ potential(fnResult) < potential(fnArgs.start)
  /\ potential(fnResult) > 0

(***************************************************************************)
(* The game and the driver on graphs of ten edges.                         *)
(***************************************************************************)

\* C21: when the input graph is a phi-expander, the driver ends with one
\* partition: partitionCount is 1 and every vertex has partition id 0,
\* whatever the flow vector and the strategy of the cut player.
C21_ExpanderOnePartition ==
  (fnPc = "decomposed" /\ isExpander(fnArgs.gr, fnArgs.phi)) =>
    /\ fnResult.partition.partitionCount = 1
    /\ \A u \in DOMAIN fnResult.partition.partition :
         fnResult.partition.partition[u] = 0

\* C23: at the end of every round, after the level cut and the vertices of
\* degree 0 have been removed, matching has returned one pair for every
\* source left in axLeft.
C23_AllSourcesMatched ==
  (fnPc = "loop" /\ fnResult.iterations > 0) =>
    Len(fnResult.matches) = Len(fnResult.axLeft)


============================================================================
